---- MODULE Spec2Model ----
(***************************************************************************)
(* Medical appointment scheduling agent (MURFYtod/Raga).                   *)
(*                                                                         *)
(* State: the JSON appointment ledger and reminder store of                *)
(* DatabaseManager, the CSV patient list, the provider templates, the EMR  *)
(* patient directory (SQLite), a wall clock, and the outcome of the last   *)
(* call; the SMS and email logs, the history of the calls made through    *)
(* the notification gateway, the service credentials and the reminder      *)
(* scheduler.  One action per tool / handler, taken as one atomic step;    *)
(* the last sections take the file reads and writes of concurrent calls     *)
(* as separate steps.                                                      *)
(*                                                                         *)
(* Encodings.  A date is a day number (day 0 is a Monday); a time string   *)
(* "HH:MM" is the record [h, m] of its two numeric fields; a datetime is   *)
(* minutes since day 0, 00:00; slot arithmetic that the code does in       *)
(* fractional hours (hour + i * 0.5) is done in minutes (60*hour + 30*i).  *)
(***************************************************************************)
EXTENDS Integers, Sequences, FiniteSets, TLC

VARIABLES
    doctors,        \* load_doctors(): list of Doctor rows (read-only template)
    appointments,   \* data/appointments.json: list of appointment dicts
    reminders,      \* data/reminders.json: list of reminder dicts
    patients,       \* data/patients.csv: list of Patient rows
    emr,            \* EMR patients table, in rowid (insertion) order
    now,            \* wall clock, minutes since day 0 00:00
    result,         \* outcome of the last call (what its caller sees)
    sms_log,        \* data/sms_log.txt: the entries appended, in order
    email_log,      \* data/email_log.txt: the entries appended, in order
    gateway,        \* history: the calls of send_sms / send_email, in order
    services,       \* SMSService.twilio_enabled, EmailService credentials
    scheduler,      \* ReminderScheduler.running, the hourly jobs, its threads
    frames          \* calls in progress: the step each has reached, its locals

\* the notification side: logs, gateway history, services, scheduler; and
\* the calls in progress
comms == <<sms_log, email_log, gateway, services, scheduler, frames>>

vars == <<doctors, appointments, reminders, patients, emr, now, result,
          sms_log, email_log, gateway, services, scheduler, frames>>

\* nothing sent, no Twilio or SMTP credentials, scheduler never started, no
\* call in progress
CommsIdle ==
    /\ sms_log = <<>>
    /\ email_log = <<>>
    /\ gateway = <<>>
    /\ services = [twilio_enabled |-> FALSE, email_configured |-> FALSE]
    /\ frames = <<>>
    /\ scheduler = [running |-> FALSE, jobs |-> <<>>, threads |-> 0]

\* Python's None: for an optional string, and for an optional record
None == "None"
NoRecord == [none |-> TRUE]

(***************************************************************************)
(* Bounds of the model.                                                    *)
(***************************************************************************)
MaxAppointments == 2
MaxReminders == 6
MaxDays == 1

(***************************************************************************)
(* Config (src/config.py).                                                 *)
(***************************************************************************)
REMINDER_HOURS == <<24, 2, 1>>
WORKING_HOURS_START == 9
WORKING_HOURS_END == 17
LUNCH_BREAK_START == 12
LUNCH_BREAK_END == 13

MinutesPerHour == 60
MinutesPerDay == 1440
SlotMinutes == 30

(***************************************************************************)
(* Generic helpers.                                                        *)
(***************************************************************************)
Range(s) == { s[i] : i \in 1..Len(s) }

\* str(n) for the small numbers the model produces
Digit(n) ==
    CASE n = 0 -> "0" [] n = 1 -> "1" [] n = 2 -> "2" [] n = 3 -> "3"
      [] n = 4 -> "4" [] n = 5 -> "5" [] n = 6 -> "6" [] n = 7 -> "7"
      [] n = 8 -> "8" [] OTHER -> "9"

Str(n) == IF n < 10 THEN Digit(n) ELSE Digit(n \div 10) \o Digit(n % 10)

\* str(n).zfill(4)
ZFill4(n) == IF n < 10 THEN "000" \o Str(n) ELSE "00" \o Str(n)

\* date.strftime("%A")
DayName(d) ==
    CASE d % 7 = 0 -> "Monday" [] d % 7 = 1 -> "Tuesday"
      [] d % 7 = 2 -> "Wednesday" [] d % 7 = 3 -> "Thursday"
      [] d % 7 = 4 -> "Friday" [] d % 7 = 5 -> "Saturday"
      [] OTHER -> "Sunday"

\* date.today()
Today == now \div MinutesPerDay

(***************************************************************************)
(* models.py                                                               *)
(***************************************************************************)
AppointmentStatus == {"scheduled", "confirmed", "cancelled", "completed", "no_show"}
ReminderType == <<"initial", "form_check", "confirmation">>

\* Appointment.validate_time_format: ^([01]?[0-9]|2[0-3]):[0-5][0-9]$
validate_time_format(t) == t.h \in 0..23 /\ t.m \in 0..59

(***************************************************************************)
(* database.py : DatabaseManager.get_available_slots                       *)
(***************************************************************************)
\* the first Doctor row with this id, or no row
FindDoctor(doctor_id) ==
    IF \E i \in 1..Len(doctors) : doctors[i].id = doctor_id
    THEN doctors[CHOOSE i \in 1..Len(doctors) :
                    /\ doctors[i].id = doctor_id
                    /\ \A j \in 1..(i - 1) : doctors[j].id # doctor_id]
    ELSE NoRecord

\* int(apt['appointment_time'].split(':')[0])
start_hour(apt) == apt.appointment_time.h

\* f"{int(hour):02d}:00"
FormatSlot(hour) == [h |-> hour, m |-> 0]

\* a variant that leaves cancelled appointments out
existing_appointments_SkipsCancelled(appts, doctor_id, appointment_date) ==
    SelectSeq(appts, LAMBDA apt : /\ apt.doctor_id = doctor_id
                                  /\ apt.appointment_date = appointment_date
                                  /\ apt.status # "cancelled")

existing_appointments(appts, doctor_id, appointment_date) ==
    SelectSeq(appts, LAMBDA apt : /\ apt.doctor_id = doctor_id
                                  /\ apt.appointment_date = appointment_date)

\* booked_slots, in minutes of the day
booked_slots(existing) ==
    UNION { { MinutesPerHour * start_hour(existing[k]) + SlotMinutes * i :
                i \in 0..((existing[k].duration \div SlotMinutes) - 1) } :
            k \in 1..Len(existing) }

\* int(duration / 30), duration > 0
slots_needed(duration) == duration \div SlotMinutes

can_fit(hour, duration, booked) ==
    \A i \in 0..(slots_needed(duration) - 1) :
        LET slot_time == MinutesPerHour * hour + SlotMinutes * i
        IN  /\ slot_time \notin booked
            /\ ~(\/ slot_time < MinutesPerHour * WORKING_HOURS_START
                 \/ slot_time >= MinutesPerHour * WORKING_HOURS_END)

\* the template hours without the lunch filter
lunch_filtered_Unfiltered(hours) == hours

lunch_filtered(hours) ==
    SelectSeq(hours, LAMBDA h : ~(LUNCH_BREAK_START <= h /\ h < LUNCH_BREAK_END))

RECURSIVE slots_of(_, _, _)
slots_of(hours, duration, booked) ==
    IF hours = <<>> THEN <<>>
    ELSE (IF can_fit(Head(hours), duration, booked)
          THEN <<FormatSlot(Head(hours))>> ELSE <<>>)
         \o slots_of(Tail(hours), duration, booked)

get_available_slots(appts, doctor_id, appointment_date, duration) ==
    LET doctor == FindDoctor(doctor_id)
        day_name == DayName(appointment_date)
    IN  IF doctor = NoRecord THEN <<>>
        ELSE IF day_name \notin doctor.available_days THEN <<>>
        ELSE slots_of(lunch_filtered(doctor.available_hours[day_name]),
                      duration,
                      booked_slots(existing_appointments(appts, doctor_id,
                                                         appointment_date)))

(***************************************************************************)
(* tools.py : BookAppointmentTool._run  (and database.py save_appointment) *)
(***************************************************************************)
\* an id that does not depend on the ledger
AppointmentId_Fixed(appts) == "APT0001"

\* f"APT{str(len(appointments) + 1).zfill(4)}"
AppointmentId(appts) == "APT" \o ZFill4(Len(appts) + 1)

\* the dict save_appointment appends
appointment_data(id, patient_id, doctor_id, appointment_date, appointment_time, duration) ==
    [id |-> id, patient_id |-> patient_id, doctor_id |-> doctor_id,
     appointment_date |-> appointment_date,
     appointment_time |-> appointment_time, duration |-> duration,
     status |-> "scheduled", created_at |-> now, updated_at |-> now]

save_appointment(appts, data) == Append(appts, data)

\* what _run does to the ledger; the Appointment model rejects a malformed
\* time (the exception becomes "ERROR: ..."), nothing else is checked
BookLedger(appts, patient_id, doctor_id, appointment_date, appointment_time, duration) ==
    IF validate_time_format(appointment_time)
    THEN save_appointment(appts,
            appointment_data(AppointmentId(appts), patient_id, doctor_id,
                             appointment_date, appointment_time, duration))
    ELSE appts

BookOutcome(appointment_time) ==
    IF validate_time_format(appointment_time) THEN "SUCCESS" ELSE "ERROR"

BookAppointment(patient_id, doctor_id, appointment_date, appointment_time, duration) ==
    /\ Len(appointments) < MaxAppointments
    /\ appointments' = BookLedger(appointments, patient_id, doctor_id,
                                  appointment_date, appointment_time, duration)
    /\ result' = [op |-> "book",
                  status |-> BookOutcome(appointment_time),
                  appointment_id |-> AppointmentId(appointments),
                  request |-> [patient_id |-> patient_id,
                               doctor_id |-> doctor_id,
                               appointment_date |-> appointment_date,
                               appointment_time |-> appointment_time,
                               duration |-> duration]]
    /\ UNCHANGED <<doctors, reminders, patients, emr, now>>
    /\ UNCHANGED comms

(***************************************************************************)
(* tools.py : GetAvailableSlotsTool._run                                   *)
(***************************************************************************)
GetAvailableSlots(doctor_id, appointment_date, duration) ==
    /\ result' = [op |-> "slots",
                  request |-> [doctor_id |-> doctor_id,
                               appointment_date |-> appointment_date,
                               duration |-> duration],
                  slots |-> get_available_slots(appointments, doctor_id,
                                                appointment_date, duration)]
    /\ UNCHANGED <<doctors, appointments, reminders, patients, emr, now>>
    /\ UNCHANGED comms

(***************************************************************************)
(* Inputs of the ledger specification.                                     *)
(***************************************************************************)
DoctorIds == {"D001", "D002"}
PatientIds == {"P0001"}
DateInputs == {1, 2}
BookDates == {1}
TimeInputs == {[h |-> 9, m |-> 0], [h |-> 9, m |-> 30], [h |-> 16, m |-> 0],
               [h |-> 24, m |-> 0]}
DurationInputs == {20, 30, 60, 75}

Doctor(id, hours) ==
    [id |-> id, available_days |-> DOMAIN hours, available_hours |-> hours]

OfficeHours == <<9, 10, 11, 12, 13, 14, 15, 16>>

\* provider templates the Schedule sheet can hold
DoctorSetups ==
    { <<Doctor("D001", [d \in {"Tuesday", "Wednesday"} |-> OfficeHours])>>,
      <<Doctor("D001", [d \in {"Tuesday"} |-> <<8, 9, 12, 16, 17>>]),
        Doctor("D002", [d \in {"Tuesday", "Wednesday"} |->
                            IF d = "Tuesday" THEN <<10, 9, 10>> ELSE <<>>])>> }

Init ==
    /\ doctors \in DoctorSetups
    /\ appointments = <<>>
    /\ reminders = <<>>
    /\ patients = <<>>
    /\ emr = <<>>
    /\ now = 0
    /\ result = [op |-> "init"]
    /\ CommsIdle

Next ==
    \/ \E p \in PatientIds, d \in DoctorIds, dt \in BookDates,
          t \in TimeInputs, dur \in DurationInputs :
          BookAppointment(p, d, dt, t, dur)
    \/ \E d \in DoctorIds, dt \in DateInputs, dur \in DurationInputs :
          GetAvailableSlots(d, dt, dur)

Spec == Init /\ [][Next]_vars

(***************************************************************************)
(* Intervals, as the claims speak of them.                                 *)
(***************************************************************************)
StartMinute(t) == 60 * t.h + t.m

\* [s1, s1 + d1) and [s2, s2 + d2) share a minute
IntervalsOverlap(s1, d1, s2, d2) == s1 < s2 + d2 /\ s2 < s1 + d1

AppointmentsOverlap(a, b) ==
    /\ a.doctor_id = b.doctor_id
    /\ a.appointment_date = b.appointment_date
    /\ IntervalsOverlap(StartMinute(a.appointment_time), a.duration,
                        StartMinute(b.appointment_time), b.duration)

\* C1 (as claimed): no two stored appointments of the same doctor and date
\* have overlapping intervals [start, start + duration).
C1_NoDoubleBooking ==
    \A i, j \in 1..Len(appointments) :
        i < j => ~AppointmentsOverlap(appointments[i], appointments[j])

\* the 30-minute sub-slots an interval [start, start + duration) is made of,
\* by their start minutes (whole sub-slots only)
SubSlots(start, duration) ==
    { start + SlotMinutes * i : i \in 0..((duration \div SlotMinutes) - 1) }

SubSlotsIntersect(s1, d1, s2, d2) ==
    \E x \in SubSlots(s1, d1), y \in SubSlots(s2, d2) :
        IntervalsOverlap(x, SlotMinutes, y, SlotMinutes)

\* the stored appointments a book request collides with
ConflictingAppointments(appts, request) ==
    { k \in 1..Len(appts) :
        /\ appts[k].doctor_id = request.doctor_id
        /\ appts[k].appointment_date = request.appointment_date
        /\ SubSlotsIntersect(StartMinute(request.appointment_time),
                             request.duration,
                             StartMinute(appts[k].appointment_time),
                             appts[k].duration) }

\* C2 (as claimed): a book call that needs a sub-slot occupied by a stored
\* appointment of the same provider and date is rejected as a conflict and
\* leaves the stored appointments unchanged.
C2_ConflictRejected ==
    [][ (/\ result'.op = "book"
         /\ validate_time_format(result'.request.appointment_time)
         /\ ConflictingAppointments(appointments, result'.request) # {})
        => (/\ result'.status = "CONFLICT"
            /\ appointments' = appointments) ]_vars

\* C3 (as claimed): every start time get_available_slots returns has an
\* interval [start, start + duration) that overlaps no stored appointment of
\* that doctor on that date.
C3_SlotsAvoidAppointments ==
    result.op = "slots" =>
        \A i \in 1..Len(result.slots), k \in 1..Len(appointments) :
            (/\ appointments[k].doctor_id = result.request.doctor_id
             /\ appointments[k].appointment_date = result.request.appointment_date)
            => ~IntervalsOverlap(StartMinute(result.slots[i]),
                                 result.request.duration,
                                 StartMinute(appointments[k].appointment_time),
                                 appointments[k].duration)

\* C4 (as claimed): every returned start time is at or after 09:00 and
\* start + duration is at or before 17:00, for every duration > 0.
C4_SlotsWithinWorkingHours ==
    result.op = "slots" =>
        \A i \in 1..Len(result.slots) :
            /\ StartMinute(result.slots[i]) >= 60 * WORKING_HOURS_START
            /\ StartMinute(result.slots[i]) + result.request.duration
                   <= 60 * WORKING_HOURS_END

\* C5 (as claimed): availability computed right after a successful book, for
\* the same provider and date and any duration, offers no start time whose
\* sub-slots intersect those of the appointment just booked.
C5_BookThenSlotsExcludesBooked ==
    [][ (/\ result.op = "book"
         /\ result.status = "SUCCESS"
         /\ result'.op = "slots"
         /\ result'.request.doctor_id = result.request.doctor_id
         /\ result'.request.appointment_date = result.request.appointment_date)
        => \A i \in 1..Len(result'.slots) :
              ~SubSlotsIntersect(StartMinute(result'.slots[i]),
                                 result'.request.duration,
                                 StartMinute(result.request.appointment_time),
                                 result.request.duration) ]_vars

(***************************************************************************)
(* emr_database.py : the patient directory                                 *)
(***************************************************************************)
\* "if phone:" - None and the empty string are falsy
Truthy(x) == x \notin {None, ""}

\* SELECT * FROM patients WHERE <match> ; fetchone(): the first matching row
\* in rowid order, or no row
FirstRow(dir, matching) ==
    IF matching # {}
    THEN dir[CHOOSE i \in matching : \A j \in matching : i <= j]
    ELSE NoRecord

\* each lookup catches every exception of the store and returns None
get_patient_by_phone(dir, phone, unreachable) ==
    IF unreachable THEN NoRecord
    ELSE FirstRow(dir, { i \in 1..Len(dir) : dir[i].phone = phone })

get_patient_by_email(dir, email, unreachable) ==
    IF unreachable THEN NoRecord
    ELSE FirstRow(dir, { i \in 1..Len(dir) : dir[i].email = email })

get_patient_by_name(dir, first_name, last_name, unreachable) ==
    IF unreachable THEN NoRecord
    ELSE FirstRow(dir, { i \in 1..Len(dir) : /\ dir[i].first_name = first_name
                                               /\ dir[i].last_name = last_name })

\* a variant that tries the email before the phone
detect_patient_type_EmailFirst(dir, phone, email, first_name, last_name, failing) ==
    LET by_email == IF Truthy(email)
                    THEN get_patient_by_email(dir, email, "email" \in failing)
                    ELSE NoRecord
        by_phone == IF by_email = NoRecord /\ Truthy(phone)
                    THEN get_patient_by_phone(dir, phone, "phone" \in failing)
                    ELSE by_email
        patient == IF by_phone = NoRecord /\ Truthy(first_name) /\ Truthy(last_name)
                   THEN get_patient_by_name(dir, first_name, last_name,
                                            "name" \in failing)
                   ELSE by_phone
    IN  IF patient # NoRecord
        THEN [patient |-> patient,
              patient_type |-> IF patient.total_visits > 0 THEN "returning"
                               ELSE "new"]
        ELSE [patient |-> NoRecord, patient_type |-> "new"]

\* a variant that returns the patient_type column of the matched row
detect_patient_type_StoredType(dir, phone, email, first_name, last_name, failing) ==
    LET by_phone == IF Truthy(phone)
                    THEN get_patient_by_phone(dir, phone, "phone" \in failing)
                    ELSE NoRecord
        by_email == IF by_phone = NoRecord /\ Truthy(email)
                    THEN get_patient_by_email(dir, email, "email" \in failing)
                    ELSE by_phone
        patient == IF by_email = NoRecord /\ Truthy(first_name) /\ Truthy(last_name)
                   THEN get_patient_by_name(dir, first_name, last_name,
                                            "name" \in failing)
                   ELSE by_email
    IN  IF patient # NoRecord
        THEN [patient |-> patient, patient_type |-> patient.patient_type]
        ELSE [patient |-> NoRecord, patient_type |-> "new"]

\* failing: the lookups ("phone", "email", "name") during which the store
\* cannot be reached
detect_patient_type(dir, phone, email, first_name, last_name, failing) ==
    LET by_phone == IF Truthy(phone)
                    THEN get_patient_by_phone(dir, phone, "phone" \in failing)
                    ELSE NoRecord
        by_email == IF by_phone = NoRecord /\ Truthy(email)
                    THEN get_patient_by_email(dir, email, "email" \in failing)
                    ELSE by_phone
        patient == IF by_email = NoRecord /\ Truthy(first_name) /\ Truthy(last_name)
                   THEN get_patient_by_name(dir, first_name, last_name,
                                            "name" \in failing)
                   ELSE by_email
    IN  IF patient # NoRecord
        THEN [patient |-> patient,
              patient_type |-> IF patient.total_visits > 0 THEN "returning"
                               ELSE "new"]
        ELSE [patient |-> NoRecord, patient_type |-> "new"]

\* a variant without the total_visits test
get_smart_duration_NoVisitTest(patient_record, patient_type) ==
    IF patient_type = "new" \/ patient_record = NoRecord THEN 60 ELSE 30

get_smart_duration(patient_record, patient_type) ==
    IF \/ patient_type = "new"
       \/ patient_record = NoRecord
       \/ patient_record.total_visits = 0
    THEN 60
    ELSE 30

\* INSERT INTO patients: patient_id is the primary key, a second row with
\* the same id is refused (add_patient returns False)
add_patient(dir, patient) ==
    IF \E i \in 1..Len(dir) : dir[i].patient_id = patient.patient_id
    THEN dir
    ELSE Append(dir, patient)

\* the UPDATE without the assignment of patient_type
update_patient_visit_KeepsType(dir, patient_id, visit_date) ==
    [i \in 1..Len(dir) |->
        IF dir[i].patient_id = patient_id
        THEN [dir[i] EXCEPT !.last_visit = visit_date,
                            !.total_visits = @ + 1]
        ELSE dir[i]]

\* UPDATE patients SET last_visit, total_visits + 1, 'returning'
update_patient_visit(dir, patient_id, visit_date) ==
    [i \in 1..Len(dir) |->
        IF dir[i].patient_id = patient_id
        THEN [dir[i] EXCEPT !.last_visit = visit_date,
                            !.total_visits = @ + 1,
                            !.patient_type = "returning"]
        ELSE dir[i]]

(***************************************************************************)
(* The directory specification: the EMR operations on their own.           *)
(***************************************************************************)
MaxVisits == 1

EmrIds == {"EMR_001", "EMR_002"}
Phones == {"4151230001", "4151230002"}
Emails == {"ann@clinic.org", "bob@clinic.org"}
FirstNames == {"Ann", "Bob"}
LastNames == {"Lee"}
Lookups == {"phone", "email", "name"}
\* the lookups an outage can hit: none, the first, all
Outages == {{}, {"phone"}, Lookups}
\* (first_name, last_name) as a caller passes them
NameInputs == {<<None, None>>, <<"Ann", "Lee">>, <<"Ann", None>>}

\* EMRDataGenerator.generate_patient_record
PatientRecord(patient_id, first_name, last_name, phone, email, is_returning) ==
    [patient_id |-> patient_id, first_name |-> first_name,
     last_name |-> last_name, phone |-> phone, email |-> email,
     last_visit |-> IF is_returning THEN 0 ELSE -1,
     total_visits |-> IF is_returning THEN 1 ELSE 0,
     patient_type |-> IF is_returning THEN "returning" ELSE "new"]

AddPatient(patient) ==
    /\ emr' = add_patient(emr, patient)
    /\ result' = [op |-> "add_patient",
                  ok |-> (\A i \in 1..Len(emr) :
                              emr[i].patient_id # patient.patient_id)]
    /\ UNCHANGED <<doctors, appointments, reminders, patients, now>>
    /\ UNCHANGED comms

UpdatePatientVisit(patient_id) ==
    /\ \A i \in 1..Len(emr) :
          emr[i].patient_id = patient_id => emr[i].total_visits < MaxVisits
    /\ emr' = update_patient_visit(emr, patient_id, Today)
    /\ result' = [op |-> "update_patient_visit", ok |-> TRUE]
    /\ UNCHANGED <<doctors, appointments, reminders, patients, now>>
    /\ UNCHANGED comms

DetectPatientType(phone, email, first_name, last_name, failing) ==
    /\ result' = [op |-> "detect",
                  args |-> [phone |-> phone, email |-> email,
                            first_name |-> first_name,
                            last_name |-> last_name],
                  failing |-> failing,
                  found |-> detect_patient_type(emr, phone, email, first_name,
                                                last_name, failing)]
    /\ UNCHANGED <<doctors, appointments, reminders, patients, emr, now>>
    /\ UNCHANGED comms

GetSmartDuration(patient_record, patient_type) ==
    /\ result' = [op |-> "duration",
                  patient_record |-> patient_record,
                  patient_type |-> patient_type,
                  duration |-> get_smart_duration(patient_record, patient_type)]
    /\ UNCHANGED <<doctors, appointments, reminders, patients, emr, now>>
    /\ UNCHANGED comms

InitEMR ==
    /\ doctors = <<>>
    /\ appointments = <<>>
    /\ reminders = <<>>
    /\ patients = <<>>
    /\ emr = <<>>
    /\ now = 0
    /\ result = [op |-> "init"]
    /\ CommsIdle

NextEMR ==
    \/ \E id \in EmrIds, f \in FirstNames, l \in LastNames, ph \in Phones,
          e \in Emails, ret \in BOOLEAN :
          AddPatient(PatientRecord(id, f, l, ph, e, ret))
    \/ \E id \in EmrIds : UpdatePatientVisit(id)
    \/ \E ph \in Phones \cup {None}, e \in Emails \cup {None},
          n \in NameInputs, failing \in Outages :
          DetectPatientType(ph, e, n[1], n[2], failing)
    \/ \E r \in Range(emr) \cup {NoRecord}, t \in {"new", "returning"} :
          GetSmartDuration(r, t)

SpecEMR == InitEMR /\ [][NextEMR]_vars

\* C6: get_smart_duration returns 60 when there is no record, when
\* patient_type is 'new' or when the record's total_visits is 0, returns 30
\* in every other case, and never any other value.
C6_SmartDuration ==
    result.op = "duration" =>
        /\ result.duration \in {30, 60}
        /\ result.patient_record = NoRecord => result.duration = 60
        /\ result.patient_type = "new" => result.duration = 60
        /\ (result.patient_record # NoRecord
              /\ result.patient_record.total_visits = 0) => result.duration = 60
        /\ (/\ result.patient_record # NoRecord
            /\ result.patient_type # "new"
            /\ result.patient_record.total_visits # 0) => result.duration = 30

\* a record with visits, passed as 'returning', has been given 30 minutes
C6_Witness ==
    /\ result.op = "duration"
    /\ result.patient_record # NoRecord
    /\ result.patient_type = "returning"
    /\ result.patient_record.total_visits > 0
    /\ result.duration = 30

\* rows of the directory matching the arguments of a resolution
PhoneMatches(args) ==
    { i \in 1..Len(emr) : Truthy(args.phone) /\ emr[i].phone = args.phone }
EmailMatches(args) ==
    { i \in 1..Len(emr) : Truthy(args.email) /\ emr[i].email = args.email }
NameMatches(args) ==
    { i \in 1..Len(emr) : /\ Truthy(args.first_name)
                          /\ Truthy(args.last_name)
                          /\ emr[i].first_name = args.first_name
                          /\ emr[i].last_name = args.last_name }
Earliest(S) == CHOOSE i \in S : \A j \in S : i <= j

\* C7: with the store reachable, resolution is by priority, first match
\* wins: the phone match if there is one, else the email match, else the
\* (first_name, last_name) match, else (None, 'new').
C7_ResolutionPriority ==
    (result.op = "detect" /\ result.failing = {}) =>
        LET args == result.args
            found == result.found.patient
        IN  /\ PhoneMatches(args) # {} => found = emr[Earliest(PhoneMatches(args))]
            /\ (PhoneMatches(args) = {} /\ EmailMatches(args) # {})
                  => found = emr[Earliest(EmailMatches(args))]
            /\ (/\ PhoneMatches(args) = {}
                /\ EmailMatches(args) = {}
                /\ NameMatches(args) # {})
                  => found = emr[Earliest(NameMatches(args))]
            /\ (/\ PhoneMatches(args) = {}
                /\ EmailMatches(args) = {}
                /\ NameMatches(args) = {})
                  => (found = NoRecord /\ result.found.patient_type = "new")

\* the phone matches one record, the email and the name another, and the
\* phone's record is returned
C7_Witness ==
    /\ result.op = "detect"
    /\ result.failing = {}
    /\ PhoneMatches(result.args) # {}
    /\ EmailMatches(result.args) # {}
    /\ NameMatches(result.args) # {}
    /\ PhoneMatches(result.args) \cap EmailMatches(result.args) = {}
    /\ PhoneMatches(result.args) \cap NameMatches(result.args) = {}
    /\ result.found.patient = emr[Earliest(PhoneMatches(result.args))]

\* C8 (as claimed): resolution never returns (None, 'new') for a contact
\* whose record is in the store, store outage or not.
C8_OutageNotNewPatient ==
    (/\ result.op = "detect"
     /\ PhoneMatches(result.args) \cup EmailMatches(result.args)
            \cup NameMatches(result.args) # {})
    => ~(result.found.patient = NoRecord /\ result.found.patient_type = "new")

(***************************************************************************)
(* tools.py : ScheduleRemindersTool._run  (and database.py save_reminder)  *)
(***************************************************************************)
\* datetime.strptime(f"{appointment_date} {appointment_time}", '%Y-%m-%d %H:%M')
\* raises unless the hour is 0..23 and the minute 0..59
strptime_ok(appointment_time) ==
    appointment_time.h \in 0..23 /\ appointment_time.m \in 0..59

apt_datetime(appointment_date, appointment_time) ==
    MinutesPerDay * appointment_date
        + MinutesPerHour * appointment_time.h + appointment_time.m

\* the digit strings appointment ids are made of
IdDigits == { ZFill4(n) : n \in 1..(MaxAppointments + 1) } \cup {"001"}

\* appointment_id.replace('APT', '')
StripAPT(appointment_id) ==
    IF \E d \in IdDigits : appointment_id = "APT" \o d
    THEN CHOOSE d \in IdDigits : appointment_id = "APT" \o d
    ELSE appointment_id

\* f"REM{appointment_id.replace('APT', '')}{i+1}", i + 1 = k
ReminderId(appointment_id, k) == "REM" \o StripAPT(appointment_id) \o Str(k)

\* a variant with the last two offsets exchanged
REMINDER_HOURS_Swapped == <<24, 1, 2>>

ReminderHours == REMINDER_HOURS

\* the dict save_reminder appends for the k-th pair of
\* zip(reminder_types, reminder_hours)
reminder_data(appointment_id, patient_id, appointment_date, appointment_time, k) ==
    [id |-> ReminderId(appointment_id, k),
     appointment_id |-> appointment_id,
     patient_id |-> patient_id,
     reminder_type |-> ReminderType[k],
     scheduled_time |-> apt_datetime(appointment_date, appointment_time)
                            - MinutesPerHour * ReminderHours[k],
     sent |-> FALSE,
     response |-> None,
     created_at |-> now]

save_reminder(rems, data) == Append(rems, data)

RECURSIVE save_reminders(_, _, _, _, _, _)
save_reminders(rems, appointment_id, patient_id, appointment_date, appointment_time, k) ==
    IF k > Len(ReminderType) \/ k > Len(ReminderHours) THEN rems
    ELSE save_reminders(
            save_reminder(rems, reminder_data(appointment_id, patient_id,
                                              appointment_date,
                                              appointment_time, k)),
            appointment_id, patient_id, appointment_date, appointment_time,
            k + 1)

\* what _run does to the reminder store
schedule_reminders(rems, appointment_id, patient_id, appointment_date, appointment_time) ==
    IF strptime_ok(appointment_time)
    THEN save_reminders(rems, appointment_id, patient_id, appointment_date,
                        appointment_time, 1)
    ELSE rems

ScheduleOutcome(appointment_time) ==
    IF strptime_ok(appointment_time) THEN "SUCCESS" ELSE "ERROR"

ScheduleReminders(appointment_id, patient_id, appointment_date, appointment_time) ==
    /\ Len(reminders) + Len(ReminderType) <= MaxReminders
    /\ reminders' = schedule_reminders(reminders, appointment_id, patient_id,
                                       appointment_date, appointment_time)
    /\ result' = [op |-> "schedule_reminders",
                  status |-> ScheduleOutcome(appointment_time),
                  request |-> [appointment_id |-> appointment_id,
                               patient_id |-> patient_id,
                               appointment_date |-> appointment_date,
                               appointment_time |-> appointment_time]]
    /\ UNCHANGED <<doctors, appointments, patients, emr, now>>
    /\ UNCHANGED comms

(***************************************************************************)
(* The reminder specification: the reminder tool on its own.               *)
(***************************************************************************)
ReminderAppointmentIds == {"APT0001", "APT0002", "APT001"}
ReminderPatientIds == {"P0001", "TEMP001"}
ReminderTimes == {[h |-> 10, m |-> 0], [h |-> 0, m |-> 30], [h |-> 24, m |-> 0]}

InitReminders ==
    /\ doctors = <<>>
    /\ appointments = <<>>
    /\ reminders = <<>>
    /\ patients = <<>>
    /\ emr = <<>>
    /\ now = 0
    /\ result = [op |-> "init"]
    /\ CommsIdle

NextReminders ==
    \E a \in ReminderAppointmentIds, p \in ReminderPatientIds,
       d \in DateInputs, t \in ReminderTimes :
       ScheduleReminders(a, p, d, t)

SpecReminders == InitReminders /\ [][NextReminders]_vars

\* C9: one call of ScheduleRemindersTool._run for an appointment appends
\* exactly three reminder rows for it, in the order initial, form_check,
\* confirmation, scheduled 24 hours, 2 hours and 1 hour before the
\* appointment start, each with sent = false and response = None.
C9_ThreeRemindersInOrder ==
    [][ (result'.op = "schedule_reminders"
           /\ strptime_ok(result'.request.appointment_time))
        => LET req == result'.request
               start == 1440 * req.appointment_date
                          + 60 * req.appointment_time.h + req.appointment_time.m
               n == Len(reminders)
           IN  /\ Len(reminders') = n + 3
               /\ SubSeq(reminders', 1, n) = reminders
               /\ \A k \in 1..3 :
                    /\ reminders'[n + k].appointment_id = req.appointment_id
                    /\ reminders'[n + k].patient_id = req.patient_id
                    /\ reminders'[n + k].sent = FALSE
                    /\ reminders'[n + k].response = None
               /\ reminders'[n + 1].reminder_type = "initial"
               /\ reminders'[n + 2].reminder_type = "form_check"
               /\ reminders'[n + 3].reminder_type = "confirmation"
               /\ reminders'[n + 1].scheduled_time = start - 24 * 60
               /\ reminders'[n + 2].scheduled_time = start - 2 * 60
               /\ reminders'[n + 3].scheduled_time = start - 1 * 60 ]_vars

\* a second call has added its three rows after the three of a first call
C9_Witness ==
    /\ result.op = "schedule_reminders"
    /\ result.status = "SUCCESS"
    /\ Len(reminders) = 6
    /\ reminders[4].appointment_id = result.request.appointment_id
    /\ reminders[4].reminder_type = "initial"
    /\ reminders[6].reminder_type = "confirmation"
    /\ reminders[6].scheduled_time = reminders[5].scheduled_time + 60
    /\ reminders[5].scheduled_time = reminders[4].scheduled_time + 22 * 60
    /\ reminders[1].appointment_id # reminders[4].appointment_id

(***************************************************************************)
(* communication.py : the notification gateway (SMSService, EmailService)  *)
(*                                                                         *)
(* Encoding.  A Python string whose characters the code inspects (a phone  *)
(* number, a reply text) is a TLA+ string; Chars gives its characters, on  *)
(* which the substring and prefix tests are computed.                      *)
(***************************************************************************)
Chars(text) ==
    CASE text = "5551234567" -> <<"5","5","5","1","2","3","4","5","6","7">>
      [] text = "4157642890" -> <<"4","1","5","7","6","4","2","8","9","0">>
      [] text = "4151230001" -> <<"4","1","5","1","2","3","0","0","0","1">>
      [] text = "4151230002" -> <<"4","1","5","1","2","3","0","0","0","2">>
      [] text = "48-76" -> <<"4","8","-","7","6">>
      [] text = "+919826145342"
           -> <<"+","9","1","9","8","2","6","1","4","5","3","4","2">>
      [] text = "YES" -> <<"Y","E","S">>
      [] text = "yes" -> <<"y","e","s">>
      [] text = "Confirm" -> <<"C","o","n","f","i","r","m">>
      [] text = "no" -> <<"n","o">>
      [] text = "CANCEL" -> <<"C","A","N","C","E","L">>
      [] text = "maybe" -> <<"m","a","y","b","e">>
      [] text = "I know" -> <<"I"," ","k","n","o","w">>
      [] text = "555" -> <<"5","5","5">>
      [] text = "123" -> <<"1","2","3">>
      [] text = "000" -> <<"0","0","0">>
      [] text = "999" -> <<"9","9","9">>
      [] text = "CONFIRM" -> <<"C","O","N","F","I","R","M">>
      [] text = "NO" -> <<"N","O">>
      [] OTHER -> <<>>

\* pattern in text
Contains(text, pattern) ==
    \E i \in 1..(Len(text) - Len(pattern) + 1) :
        SubSeq(text, i, i + Len(pattern) - 1) = pattern

\* text.startswith(pattern)
StartsWith(text, pattern) ==
    /\ Len(text) >= Len(pattern)
    /\ SubSeq(text, 1, Len(pattern)) = pattern

\* text.replace(c, "") for every character c of removed
Without(text, removed) == SelectSeq(text, LAMBDA c : c \notin removed)

\* the example patterns, after their own .replace("-", "").replace(".", "")
example_patterns == {"555", "123", "000", "999"}

phone_clean(phone) == Without(Chars(phone), {"+", "-", ".", " "})

MinPhoneDigits == 10

\* a gateway that recognises no test destination
is_example_phone_Never(phone) == FALSE

is_example_phone(phone) ==
    \/ ~Truthy(phone)
    \/ \E pattern \in example_patterns :
          Contains(phone_clean(phone), Chars(pattern))
    \/ Len(phone_clean(phone)) < MinPhoneDigits
    \/ StartsWith(phone_clean(phone), Chars("555"))
    \/ StartsWith(phone_clean(phone), Chars("123"))

\* the number handed to Twilio
FormatPhone(phone_number) ==
    IF ~StartsWith(Chars(phone_number), <<"+">>)
    THEN IF StartsWith(Chars(phone_number), <<"1">>) /\ Len(phone_number) = 11
         THEN "+" \o phone_number
         ELSE "+1" \o phone_number
    ELSE phone_number    \* only digits and "+" in the numbers used

\* what Twilio does with a message: delivers it, refuses it for an account
\* limitation, or fails
SmsOutcomes == {"ok", "limit", "error"}
\* what the SMTP server does
SmtpOutcomes == {"ok", "error"}

\* send_sms with the account limitation treated like any other provider error
send_sms_LimitFails(phone_number, twilio_enabled, outcome) ==
    IF is_example_phone(phone_number)
    THEN [ok |-> TRUE, attempted |-> FALSE, log |-> <<>>]
    ELSE IF ~twilio_enabled
    THEN [ok |-> TRUE, attempted |-> FALSE,
          log |-> <<[kind |-> "SIMULATED", to |-> FormatPhone(phone_number)]>>]
    ELSE IF outcome = "ok"
    THEN [ok |-> TRUE, attempted |-> TRUE,
          log |-> <<[kind |-> "REAL", to |-> FormatPhone(phone_number)]>>]
    ELSE [ok |-> FALSE, attempted |-> TRUE,
          log |-> <<[kind |-> "FAILED", to |-> FormatPhone(phone_number)]>>]

\* send_sms: the value returned (ok), whether Twilio was called (attempted)
\* and the entries appended to the SMS log
send_sms(phone_number, twilio_enabled, outcome) ==
    IF is_example_phone(phone_number)
    THEN [ok |-> TRUE, attempted |-> FALSE, log |-> <<>>]
    ELSE IF ~twilio_enabled
    THEN [ok |-> TRUE, attempted |-> FALSE,
          log |-> <<[kind |-> "SIMULATED", to |-> FormatPhone(phone_number)]>>]
    ELSE CASE outcome = "ok" ->
                [ok |-> TRUE, attempted |-> TRUE,
                 log |-> <<[kind |-> "REAL", to |-> FormatPhone(phone_number)]>>]
           [] outcome = "limit" ->
                [ok |-> TRUE, attempted |-> TRUE,
                 log |-> <<[kind |-> "SIMULATED (Twilio limit)",
                            to |-> FormatPhone(phone_number)]>>]
           [] OTHER ->
                [ok |-> FALSE, attempted |-> TRUE,
                 log |-> <<[kind |-> "FAILED", to |-> FormatPhone(phone_number)]>>]

\* send_email: the same three facts for the email channel
send_email(to_email, email_configured, outcome) ==
    IF ~email_configured
    THEN [ok |-> TRUE, attempted |-> FALSE,
          log |-> <<[kind |-> "SIMULATED", to |-> to_email]>>]
    ELSE IF outcome = "ok"
    THEN [ok |-> TRUE, attempted |-> TRUE, log |-> <<>>]
    ELSE [ok |-> FALSE, attempted |-> TRUE,
          log |-> <<[kind |-> "FAILED", to |-> to_email]>>]

\* one call through the gateway, as the history records it; reminder is the
\* row of the reminder store the call was made for (0: none)
GatewayCall(channel, to, reminder, sent) ==
    [channel |-> channel, to |-> to, reminder |-> reminder,
     attempted |-> sent.attempted, ok |-> sent.ok]

(***************************************************************************)
(* database.py : the CSV patient list                                      *)
(***************************************************************************)
\* str.lower() on the names the model uses
Lower(name) ==
    CASE name = "Ann" -> "ann" [] name = "Lee" -> "lee"
      [] name = "Patient" -> "patient" [] OTHER -> name

find_patient_by_name_dob(pats, first_name, last_name, date_of_birth) ==
    FirstRow(pats, { i \in 1..Len(pats) :
                        /\ Lower(pats[i].first_name) = Lower(first_name)
                        /\ Lower(pats[i].last_name) = Lower(last_name)
                        /\ pats[i].date_of_birth = date_of_birth })

\* returns the list unchanged (False) when the name and date of birth are
\* already there
add_new_patient(pats, patient) ==
    IF find_patient_by_name_dob(pats, patient.first_name, patient.last_name,
                                patient.date_of_birth) # NoRecord
    THEN pats
    ELSE Append(pats, patient)

(***************************************************************************)
(* simple_agent_fixed.py : the booking flow of the agent                   *)
(***************************************************************************)
ExampleEmails == {"ann@example.com", "patient@example.com"}
InvalidEmails == {"ann@clinic"}
TestPhones == {"5551234567"}
RealEmail == "shrivastavasaksham04@gmail.com"
RealPhone == "+919826145342"
DefaultEmail == "patient@example.com"
IsoDates == {"1990-01-01"}

\* the date "2025-09-04" of the reminder request, a Thursday
FixedReminderDate == 3
FixedReminderTime == [h |-> 10, m |-> 0]
FixedAppointmentTime == [h |-> 10, m |-> 0]

\* "example" in email.lower() / "555" in phone
LookupEmail(email) ==
    IF Truthy(email) /\ email \in ExampleEmails THEN RealEmail ELSE email
LookupPhone(phone) ==
    IF Truthy(phone) /\ phone \in TestPhones THEN RealPhone ELSE phone

\* Patient.validate_email
validate_email(email) == email \notin InvalidEmails

\* collected_data.get(key, default)
GetOr(value, default) == IF value = None THEN default ELSE value

\* f"P{str(len(existing_patients) + 1).zfill(4)}"
PatientId(pats) == "P" \o ZFill4(Len(pats) + 1)

\* the date of birth as parsed, or the default (today - 30 years)
ParseDob(date_of_birth) ==
    IF date_of_birth \in IsoDates THEN [iso |-> date_of_birth]
    ELSE [default_on |-> Today]

\* _handle_reminder_request: what it does to the reminder store
handle_reminder_request(rems, cd) ==
    IF ~Truthy(cd.first_name) \/ ~Truthy(cd.date_of_birth) THEN rems
    ELSE IF ~validate_email(GetOr(cd.email, DefaultEmail)) THEN rems
    ELSE schedule_reminders(rems, "APT001", "TEMP001", FixedReminderDate,
                            FixedReminderTime)

\* how far _handle_appointment_booking gets with the collected data cd
BookingOutcome(cd, failing) ==
    IF \E f \in {"first_name", "date_of_birth", "phone"} : ~Truthy(cd[f])
    THEN "missing"
    ELSE IF detect_patient_type(emr, LookupPhone(cd.phone),
                                LookupEmail(cd.email), cd.first_name,
                                GetOr(cd.last_name, "Patient"),
                                failing).patient # NoRecord
    THEN "error"         \* patient_record.get(...): AttributeError
    ELSE IF ~validate_email(GetOr(cd.email, DefaultEmail))
    THEN "error"         \* Patient(...): ValueError
    ELSE "booked"

AgentPatient(cd, failing) ==
    [id |-> PatientId(patients),
     first_name |-> cd.first_name,
     last_name |-> GetOr(cd.last_name, "Patient"),
     date_of_birth |-> ParseDob(cd.date_of_birth),
     phone |-> LookupPhone(cd.phone),
     email |-> GetOr(cd.email, DefaultEmail),
     patient_type |-> detect_patient_type(emr, LookupPhone(cd.phone),
                                          LookupEmail(cd.email), cd.first_name,
                                          GetOr(cd.last_name, "Patient"),
                                          failing).patient_type]

AgentDuration(cd, failing) ==
    LET found == detect_patient_type(emr, LookupPhone(cd.phone),
                                     LookupEmail(cd.email), cd.first_name,
                                     GetOr(cd.last_name, "Patient"), failing)
    IN  get_smart_duration(found.patient, found.patient_type)

\* what the three sends after a booking do, in the order of the calls:
\* confirmation email, confirmation SMS, intake forms email; "raise" is an
\* exception that leaves the send before anything is transmitted or logged
Raise == "raise"
SendOutcomes ==
    { sends \in [1..3 -> SmsOutcomes \cup SmtpOutcomes \cup {Raise}] :
         /\ sends[1] \in SmtpOutcomes \cup {Raise}
         /\ sends[2] \in SmsOutcomes \cup {Raise}
         /\ sends[3] \in SmtpOutcomes \cup {Raise} }

\* the sends that are called: everything up to the first one that raises
called(sends) ==
    { i \in 1..3 : \A j \in 1..(i - 1) : sends[j] # Raise }

\* one send of _send_immediate_communications
immediate_send(patient, i, outcome) ==
    IF outcome = Raise
    THEN [ok |-> FALSE, attempted |-> FALSE, log |-> <<>>]
    ELSE IF i = 2
    THEN send_sms(patient.phone, services.twilio_enabled, outcome)
    ELSE send_email(patient.email, services.email_configured, outcome)

\* the except clause of _send_immediate_communications with the exception
\* of a send passed on to the caller
immediate_communications_Uncaught(patient, sends) ==
    LET sent(i) == immediate_send(patient, i, sends[i])
        log(i) == IF i \in called(sends) THEN sent(i).log ELSE <<>>
        call(i) == IF i \notin called(sends) THEN <<>>
                   ELSE <<GatewayCall(IF i = 2 THEN "sms" ELSE "email",
                                      IF i = 2 THEN patient.phone
                                      ELSE patient.email, 0, sent(i))>>
    IN  [sms_log |-> log(2),
         email_log |-> log(1) \o log(3),
         gateway |-> call(1) \o call(2) \o call(3),
         escaped |-> \E i \in 1..3 : sends[i] = Raise]

\* _send_immediate_communications: confirmation email, confirmation SMS,
\* intake forms email; what it adds to the logs and to the gateway history,
\* and whether an exception leaves it (escaped)
immediate_communications(patient, sends) ==
    LET sent(i) == immediate_send(patient, i, sends[i])
        log(i) == IF i \in called(sends) THEN sent(i).log ELSE <<>>
        call(i) == IF i \notin called(sends) THEN <<>>
                   ELSE <<GatewayCall(IF i = 2 THEN "sms" ELSE "email",
                                      IF i = 2 THEN patient.phone
                                      ELSE patient.email, 0, sent(i))>>
    IN  [sms_log |-> log(2),
         email_log |-> log(1) \o log(3),
         gateway |-> call(1) \o call(2) \o call(3),
         escaped |-> FALSE]     \* except Exception: a string is returned

\* _handle_appointment_booking, with the communications it sends and the
\* reminder request it makes after a successful book
HandleAppointmentBooking(cd, failing, sends) ==
    /\ Len(appointments) < MaxAppointments
    /\ Len(reminders) + Len(ReminderType) <= MaxReminders
    /\ IF BookingOutcome(cd, failing) = "booked"
       THEN LET comm == immediate_communications(AgentPatient(cd, failing),
                                                 sends)
            IN  /\ patients' = add_new_patient(patients,
                                               AgentPatient(cd, failing))
                /\ appointments' = BookLedger(appointments,
                                              PatientId(patients), "D001",
                                              Today + 1, FixedAppointmentTime,
                                              AgentDuration(cd, failing))
                /\ sms_log' = sms_log \o comm.sms_log
                /\ email_log' = email_log \o comm.email_log
                /\ gateway' = gateway \o comm.gateway
                /\ reminders' = IF comm.escaped THEN reminders
                                ELSE handle_reminder_request(reminders, cd)
                /\ result' = [op |-> "agent_booking",
                              status |-> IF comm.escaped THEN "error"
                                         ELSE "booked",
                              appointment_id |-> AppointmentId(appointments)]
       ELSE /\ UNCHANGED <<patients, appointments, reminders>>
            /\ UNCHANGED <<sms_log, email_log, gateway>>
            /\ result' = [op |-> "agent_booking",
                          status |-> BookingOutcome(cd, failing),
                          appointment_id |-> None]
    /\ UNCHANGED <<doctors, emr, now, services, scheduler, frames>>

\* _handle_reminder_request, asked for by the user
HandleReminderRequest(cd) ==
    /\ Len(reminders) + Len(ReminderType) <= MaxReminders
    /\ reminders' = handle_reminder_request(reminders, cd)
    /\ result' = [op |-> "agent_reminders",
                  status |-> IF reminders' = reminders THEN "none"
                             ELSE "scheduled"]
    /\ UNCHANGED <<doctors, appointments, patients, emr, now>>
    /\ UNCHANGED comms

\* a day passes
Tick ==
    /\ Today < MaxDays
    /\ now' = now + MinutesPerDay
    /\ result' = [op |-> "tick"]
    /\ UNCHANGED <<doctors, appointments, reminders, patients, emr>>
    /\ UNCHANGED comms

(***************************************************************************)
(* The agent specification.                                                *)
(***************************************************************************)
CollectedData ==
    [first_name : {None, "Ann"},
     last_name : {None, "Lee"},
     date_of_birth : {None, "1990-01-01"},
     phone : {None, "4151230001", "5551234567"},
     email : {None, "ann@clinic.org", "ann@clinic"}]

\* the EMR directory the agent finds: empty, or with one returning patient
EmrSetups ==
    { <<>>,
      <<PatientRecord("EMR_001", "Bob", "Lee", "4151230001",
                      "bob@clinic.org", TRUE)>> }

InitAgent ==
    /\ doctors = <<>>
    /\ appointments = <<>>
    /\ reminders = <<>>
    /\ patients = <<>>
    /\ emr \in EmrSetups
    /\ now = 0
    /\ result = [op |-> "init"]
    /\ sms_log = <<>>
    /\ email_log = <<>>
    /\ gateway = <<>>
    /\ services \in {[twilio_enabled |-> FALSE, email_configured |-> FALSE],
                      [twilio_enabled |-> TRUE, email_configured |-> TRUE]}
    /\ frames = <<>>
    /\ scheduler = [running |-> FALSE, jobs |-> <<>>, threads |-> 0]

NextAgent ==
    \/ \E cd \in CollectedData, failing \in Outages,
          sms_outcome \in SmsOutcomes, smtp_outcome \in SmtpOutcomes :
          HandleAppointmentBooking(cd, failing,
                                   <<smtp_outcome, sms_outcome, smtp_outcome>>)
    \/ \E cd \in CollectedData : HandleReminderRequest(cd)
    \/ Tick

SpecAgent == InitAgent /\ [][NextAgent]_vars

\* the reminder rows that carry the id of an appointment
RemindersOf(appointment_id) ==
    { k \in 1..Len(reminders) : reminders[k].appointment_id = appointment_id }

\* C10 (as claimed): every stored appointment has exactly three reminder
\* rows with its id, one of each reminder type.
C10_ThreeRemindersPerAppointment ==
    \A i \in 1..Len(appointments) :
        /\ Cardinality(RemindersOf(appointments[i].id)) = 3
        /\ \A t \in Range(ReminderType) :
              \E k \in RemindersOf(appointments[i].id) :
                  reminders[k].reminder_type = t

(***************************************************************************)
(* communication.py : calls through the gateway                           *)
(***************************************************************************)
MaxGateway == 3

SendSms(phone_number, outcome) ==
    /\ Len(gateway) < MaxGateway
    /\ sms_log' = sms_log \o send_sms(phone_number, services.twilio_enabled,
                                      outcome).log
    /\ gateway' = Append(gateway,
                     GatewayCall("sms", phone_number, 0,
                                 send_sms(phone_number,
                                          services.twilio_enabled, outcome)))
    /\ result' = [op |-> "send_sms", to |-> phone_number,
                  ok |-> send_sms(phone_number, services.twilio_enabled,
                                  outcome).ok]
    /\ UNCHANGED <<doctors, appointments, reminders, patients, emr, now>>
    /\ UNCHANGED <<email_log, services, scheduler, frames>>

SendEmail(to_email, outcome) ==
    /\ Len(gateway) < MaxGateway
    /\ email_log' = email_log \o send_email(to_email,
                                            services.email_configured,
                                            outcome).log
    /\ gateway' = Append(gateway,
                     GatewayCall("email", to_email, 0,
                                 send_email(to_email,
                                            services.email_configured,
                                            outcome)))
    /\ result' = [op |-> "send_email", to |-> to_email,
                  ok |-> send_email(to_email, services.email_configured,
                                    outcome).ok]
    /\ UNCHANGED <<doctors, appointments, reminders, patients, emr, now>>
    /\ UNCHANGED <<sms_log, services, scheduler, frames>>

SmsDestinations == {None, "5551234567", "48-76", "4157642890", "+919826145342"}
EmailDestinations == {"ann@clinic.org", "ann@example.com"}

\* the credentials found in the environment when the services are built
ServiceSetups == [twilio_enabled : BOOLEAN, email_configured : BOOLEAN]

InitGateway ==
    /\ doctors = <<>>
    /\ appointments = <<>>
    /\ reminders = <<>>
    /\ patients = <<>>
    /\ emr = <<>>
    /\ now = 0
    /\ result = [op |-> "init"]
    /\ sms_log = <<>>
    /\ email_log = <<>>
    /\ gateway = <<>>
    /\ services \in ServiceSetups
    /\ frames = <<>>
    /\ scheduler = [running |-> FALSE, jobs |-> <<>>, threads |-> 0]

NextGateway ==
    \/ \E phone_number \in SmsDestinations, outcome \in SmsOutcomes :
          SendSms(phone_number, outcome)
    \/ \E to_email \in EmailDestinations, outcome \in SmtpOutcomes :
          SendEmail(to_email, outcome)

SpecGateway == InitGateway /\ [][NextGateway]_vars

(***************************************************************************)
(* communication.py : ReminderScheduler                                    *)
(***************************************************************************)
\* the due window of a dispatch scan: 300 seconds either side
DueWindowMinutes == 5
\* schedule.every().hour
JobPeriodMinutes == 60

Abs(n) == IF n < 0 THEN 0 - n ELSE n

\* next((x for x in rows if ...), None) by id
FindById(rows, id) == FirstRow(rows, { i \in 1..Len(rows) : rows[i].id = id })

\* the stores and logs a dispatch scan reads and writes
World == [reminders |-> reminders, sms_log |-> sms_log,
          email_log |-> email_log, gateway |-> gateway]

\* _mark_reminder_sent: the first row with that id
mark_reminder_sent(rems, reminder_id) ==
    LET hits == { i \in 1..Len(rems) : rems[i].id = reminder_id }
    IN  IF hits = {} THEN rems
        ELSE [rems EXCEPT ![Earliest(hits)].sent = TRUE]

\* the SMS of _send_reminder, through SMSService.send_appointment_reminder
reminder_sms(w, k, patient, sms_outcome) ==
    LET sent == send_sms(patient.phone, services.twilio_enabled, sms_outcome)
    IN  [w EXCEPT !.sms_log = @ \o sent.log,
                  !.gateway = Append(@, GatewayCall("sms", patient.phone, k,
                                                    sent))]

\* the email of _send_reminder, through send_appointment_confirmation
reminder_email(w, k, patient, smtp_outcome) ==
    LET sent == send_email(patient.email, services.email_configured,
                           smtp_outcome)
    IN  [w EXCEPT !.email_log = @ \o sent.log,
                  !.gateway = Append(@, GatewayCall("email", patient.email, k,
                                                    sent))]

\* email_success = True unless the reminder is the initial one
email_success(reminder_type, patient, smtp_outcome) ==
    IF reminder_type = "initial"
    THEN send_email(patient.email, services.email_configured, smtp_outcome).ok
    ELSE TRUE

\* _send_reminder for row k of the list the scan loaded
send_reminder(w, reminder_row, k, sms_outcome, smtp_outcome) ==
    LET patient == FindById(patients, reminder_row.patient_id)
        appointment == FindById(appointments, reminder_row.appointment_id)
        sms_success == send_sms(patient.phone, services.twilio_enabled,
                                sms_outcome).ok
        after_sms == reminder_sms(w, k, patient, sms_outcome)
        after_email == IF reminder_row.reminder_type = "initial"
                       THEN reminder_email(after_sms, k, patient, smtp_outcome)
                       ELSE after_sms
    IN  IF patient = NoRecord \/ appointment = NoRecord THEN w
        ELSE IF sms_success
                \/ email_success(reminder_row.reminder_type, patient,
                                 smtp_outcome)
        THEN [after_email EXCEPT
                 !.reminders = mark_reminder_sent(@, reminder_row.id)]
        ELSE after_email

\* abs((current_time - scheduled_time).total_seconds()) <= 300
is_due(reminder_row) == Abs(now - reminder_row.scheduled_time) <= DueWindowMinutes

\* _check_and_send_reminders, from row k of the loaded list on
RECURSIVE check_and_send_reminders(_, _, _, _, _)
check_and_send_reminders(w, loaded, k, sms_outcome, smtp_outcome) ==
    IF k > Len(loaded) THEN w
    ELSE check_and_send_reminders(
             IF ~loaded[k].sent /\ is_due(loaded[k])
             THEN send_reminder(w, loaded[k], k, sms_outcome, smtp_outcome)
             ELSE w,
             loaded, k + 1, sms_outcome, smtp_outcome)

\* schedule.run_pending(): every job whose next run has come runs one scan
RECURSIVE run_pending(_, _, _, _, _)
run_pending(w, jobs, j, sms_outcome, smtp_outcome) ==
    IF j > Len(jobs) THEN w
    ELSE run_pending(
             IF jobs[j] <= now
             THEN check_and_send_reminders(w, w.reminders, 1, sms_outcome,
                                           smtp_outcome)
             ELSE w,
             jobs, j + 1, sms_outcome, smtp_outcome)

\* the next run of every job that ran
rescheduled(jobs) ==
    [j \in 1..Len(jobs) |->
        IF jobs[j] <= now THEN now + JobPeriodMinutes ELSE jobs[j]]

MaxJobs == 2

StartScheduler ==
    /\ Len(scheduler.jobs) < MaxJobs
    /\ scheduler' = [running |-> TRUE,
                     jobs |-> Append(scheduler.jobs, now + JobPeriodMinutes),
                     threads |-> scheduler.threads + 1]
    /\ result' = [op |-> "start_scheduler"]
    /\ UNCHANGED <<doctors, appointments, reminders, patients, emr, now>>
    /\ UNCHANGED <<sms_log, email_log, gateway, services, frames>>

StopScheduler ==
    /\ scheduler' = [scheduler EXCEPT !.running = FALSE]
    /\ result' = [op |-> "stop_scheduler"]
    /\ UNCHANGED <<doctors, appointments, reminders, patients, emr, now>>
    /\ UNCHANGED <<sms_log, email_log, gateway, services, frames>>

\* a job is waiting for a live thread of a running scheduler
JobPending ==
    /\ scheduler.running
    /\ scheduler.threads > 0
    /\ \E j \in 1..Len(scheduler.jobs) : scheduler.jobs[j] <= now

\* one turn of the loop of _run_scheduler in one thread: the thread ends when
\* the scheduler is stopped, and runs the pending jobs otherwise
RunScheduler(sms_outcome, smtp_outcome) ==
    /\ scheduler.threads > 0
    /\ IF ~scheduler.running
       THEN /\ scheduler' = [scheduler EXCEPT !.threads = @ - 1]
            /\ result' = [op |-> "run_scheduler", scans |-> 0]
            /\ UNCHANGED <<reminders, sms_log, email_log, gateway>>
       ELSE /\ JobPending
            /\ Len(gateway) < MaxGateway
            /\ LET w == run_pending(World, scheduler.jobs, 1, sms_outcome,
                                    smtp_outcome)
               IN  /\ reminders' = w.reminders
                   /\ sms_log' = w.sms_log
                   /\ email_log' = w.email_log
                   /\ gateway' = w.gateway
            /\ scheduler' = [scheduler EXCEPT !.jobs = rescheduled(@)]
            /\ result' = [op |-> "run_scheduler",
                          scans |-> Cardinality({ j \in 1..Len(scheduler.jobs) :
                                                     scheduler.jobs[j] <= now })]
    /\ UNCHANGED <<doctors, appointments, patients, emr, now, services, frames>>

\* the instants at which the clock is observed (minutes since day 0, 00:00)
ClockInstants == {0, 60, 120}

\* time passes to the next of the given instants; the loop wakes every
\* minute, so a pending job runs first
AdvanceWithin(instants) ==
    /\ \E t \in instants : t > now
    /\ ~JobPending
    /\ now' = Earliest({ t \in instants : t > now })
    /\ result' = [op |-> "advance"]
    /\ UNCHANGED <<doctors, appointments, reminders, patients, emr>>
    /\ UNCHANGED comms

Advance == AdvanceWithin(ClockInstants)

(***************************************************************************)
(* process_reminder_response                                               *)
(***************************************************************************)
\* str.upper(), character by character
UpperChar(c) ==
    CASE c = "a" -> "A" [] c = "b" -> "B" [] c = "c" -> "C" [] c = "e" -> "E"
      [] c = "f" -> "F" [] c = "i" -> "I" [] c = "k" -> "K" [] c = "l" -> "L"
      [] c = "m" -> "M" [] c = "n" -> "N" [] c = "o" -> "O" [] c = "r" -> "R"
      [] c = "s" -> "S" [] c = "w" -> "W" [] c = "y" -> "Y" [] OTHER -> c

response_upper(response) ==
    [i \in 1..Len(Chars(response)) |-> UpperChar(Chars(response)[i])]

\* the outcome stored for a reply
stored_response(response) ==
    IF Contains(response_upper(response), Chars("YES"))
       \/ Contains(response_upper(response), Chars("CONFIRM"))
    THEN "confirmed"
    ELSE IF Contains(response_upper(response), Chars("NO"))
            \/ Contains(response_upper(response), Chars("CANCEL"))
    THEN "cancelled"
    ELSE response

\* next((p for p in patients if p.phone == phone_number), None)
patient_by_phone(pats, phone_number) ==
    FirstRow(pats, { i \in 1..Len(pats) : pats[i].phone = phone_number })

\* a selection that forgets the sent flag
pending_rows_IgnoresSent(rems, patient_id) ==
    { i \in 1..Len(rems) : /\ rems[i].patient_id = patient_id
                           /\ rems[i].response = None }

\* the rows process_reminder_response may pick for a patient
pending_rows(rems, patient_id) ==
    { i \in 1..Len(rems) : /\ rems[i].patient_id = patient_id
                           /\ ~rems[i].sent
                           /\ rems[i].response = None }

\* a handler that also clears the sent flag of the patient's reminders
process_reminder_response_ResetsSent(rems, pats, phone_number, response) ==
    LET patient == patient_by_phone(pats, phone_number)
    IN  IF patient = NoRecord THEN rems
        ELSE IF pending_rows(rems, patient.id) = {} THEN rems
        ELSE [i \in 1..Len(rems) |->
                 IF i = Earliest(pending_rows(rems, patient.id))
                 THEN [rems[i] EXCEPT !.response = stored_response(response)]
                 ELSE IF rems[i].patient_id = patient.id
                 THEN [rems[i] EXCEPT !.sent = FALSE]
                 ELSE rems[i]]

\* a handler that writes to the patient's first unsent reminder, answered or not
process_reminder_response_Overwrites(rems, pats, phone_number, response) ==
    LET patient == patient_by_phone(pats, phone_number)
        unsent == { i \in 1..Len(rems) : /\ rems[i].patient_id = patient.id
                                         /\ ~rems[i].sent }
    IN  IF patient = NoRecord THEN rems
        ELSE IF unsent = {} THEN rems
        ELSE [rems EXCEPT ![Earliest(unsent)].response =
                              stored_response(response)]

\* the reminder store after process_reminder_response
process_reminder_response(rems, pats, phone_number, response) ==
    LET patient == patient_by_phone(pats, phone_number)
    IN  IF patient = NoRecord THEN rems
        ELSE IF pending_rows(rems, patient.id) = {} THEN rems
        ELSE [rems EXCEPT ![Earliest(pending_rows(rems, patient.id))].response =
                              stored_response(response)]

\* the text returned to the caller
response_message(rems, pats, phone_number, response) ==
    LET patient == patient_by_phone(pats, phone_number)
    IN  IF patient = NoRecord THEN "Patient not found"
        ELSE IF pending_rows(rems, patient.id) = {}
        THEN "No pending reminders found"
        ELSE CASE stored_response(response) = "confirmed" -> "Thank you for confirming"
               [] stored_response(response) = "cancelled" -> "We're sorry you need to cancel"
               [] OTHER -> "Thank you for your response"

ProcessReminderResponse(phone_number, response) ==
    /\ reminders' = process_reminder_response(reminders, patients,
                                              phone_number, response)
    /\ result' = [op |-> "process_reminder_response",
                  message |-> response_message(reminders, patients,
                                               phone_number, response)]
    /\ UNCHANGED <<doctors, appointments, patients, emr, now>>
    /\ UNCHANGED comms

(***************************************************************************)
(* The reminder scheduler specification.                                   *)
(***************************************************************************)
PatientRow(id, first_name, last_name, phone, email) ==
    [id |-> id, first_name |-> first_name, last_name |-> last_name,
     date_of_birth |-> [iso |-> "1990-01-01"], phone |-> phone,
     email |-> email, patient_type |-> "new"]

\* two patients on file, and one appointment booked for the first
SchedulerPatients ==
    <<PatientRow("P0001", "Ann", "Lee", "4157642890", "ann@clinic.org"),
      PatientRow("P0002", "Bob", "Lee", "+919826145342", "bob@clinic.org")>>

SchedulerAppointments ==
    BookLedger(<<>>, "P0001", "D001", 1, [h |-> 10, m |-> 0], 60)

\* the (patient, date, time) triples handed to the reminder tool
SchedulerRequests ==
    { <<"P0001", 1, [h |-> 1, m |-> 0]>>, <<"P0001", 0, [h |-> 3, m |-> 0]>>,
      <<"P0002", 0, [h |-> 3, m |-> 0]>> }

\* the credentials in the environment: none, or Twilio and SMTP both
SchedulerServices ==
    { [twilio_enabled |-> FALSE, email_configured |-> FALSE],
      [twilio_enabled |-> TRUE, email_configured |-> TRUE] }

ReplyPhones == {"4157642890", "+919826145342", "5551234567"}
ReplyTexts == {"yes", "maybe"}
AllReplyTexts == {"YES", "yes", "Confirm", "no", "CANCEL", "maybe", "I know"}

InitScheduler ==
    /\ now = 0
    /\ doctors = <<>>
    /\ appointments = SchedulerAppointments
    /\ reminders = <<>>
    /\ patients = SchedulerPatients
    /\ emr = <<>>
    /\ result = [op |-> "init"]
    /\ sms_log = <<>>
    /\ email_log = <<>>
    /\ gateway = <<>>
    /\ services \in SchedulerServices
    /\ frames = <<>>
    /\ scheduler = [running |-> FALSE, jobs |-> <<>>, threads |-> 0]

NextScheduler ==
    \/ \E request \in SchedulerRequests :
          ScheduleReminders("APT0001", request[1], request[2], request[3])
    \/ StartScheduler
    \/ StopScheduler
    \/ \E sms_outcome \in SmsOutcomes, smtp_outcome \in SmtpOutcomes :
          RunScheduler(sms_outcome, smtp_outcome)
    \/ Advance

SpecScheduler == InitScheduler /\ [][NextScheduler]_vars

(***************************************************************************)
(* The inbound reply specification: the scheduler was started once, at     *)
(* time 0, its job is now due, and replies arrive.                         *)
(***************************************************************************)
InitReplies ==
    /\ now = JobPeriodMinutes
    /\ doctors = <<>>
    /\ appointments = SchedulerAppointments
    /\ reminders = <<>>
    /\ patients = SchedulerPatients
    /\ emr = <<>>
    /\ result = [op |-> "init"]
    /\ sms_log = <<>>
    /\ email_log = <<>>
    /\ gateway = <<>>
    /\ services \in SchedulerServices
    /\ frames = <<>>
    /\ scheduler = [running |-> TRUE, jobs |-> <<JobPeriodMinutes>>,
                    threads |-> 1]

NextReplies ==
    \/ \E request \in SchedulerRequests :
          ScheduleReminders("APT0001", request[1], request[2], request[3])
    \/ \E sms_outcome \in SmsOutcomes, smtp_outcome \in SmtpOutcomes :
          RunScheduler(sms_outcome, smtp_outcome)
    \/ \E phone_number \in ReplyPhones, response \in ReplyTexts :
          ProcessReminderResponse(phone_number, response)

SpecReplies == InitReplies /\ [][NextReplies]_vars

(***************************************************************************)
(* The reply text specification: one patient's reminders, every reply text *)
(***************************************************************************)
NextReplyTexts ==
    \/ ScheduleReminders("APT0001", "P0001", 1, [h |-> 1, m |-> 0])
    \/ \E response \in AllReplyTexts :
          ProcessReminderResponse("4157642890", response)

SpecReplyTexts == InitScheduler /\ [][NextReplyTexts]_vars

(***************************************************************************)
(* Claims about the reminder scheduler and the inbound replies.            *)
(***************************************************************************)
\* C11: across schedule, dispatch scan, mark sent and record response, no
\* reminder row is removed and a sent flag that is true stays true, so the
\* flag changes only from false to true and at most once.
C11_SentNeverReverts ==
    [][/\ Len(reminders') >= Len(reminders)
       /\ \A k \in 1..Len(reminders) :
             reminders[k].sent => reminders'[k].sent]_vars

\* a scan has marked a reminder sent and a reply was recorded afterwards
C11_Witness ==
    /\ result.op = "process_reminder_response"
    /\ \E k \in 1..Len(reminders) : reminders[k].sent
    /\ \E k \in 1..Len(reminders) : reminders[k].response # None
    /\ Len(reminders) = 2 * Len(ReminderType)

\* the calls the gateway received in this step for reminder row k
NewCallsFor(k) ==
    { i \in (Len(gateway) + 1)..Len(gateway') : gateway'[i].reminder = k }

\* C12 (as claimed): a reminder row is marked sent only if a channel that
\* was attempted for it in that step reported success.
C12_SentOnlyOnSuccess ==
    [][\A k \in 1..Len(reminders) :
          (~reminders[k].sent /\ reminders'[k].sent)
              => \E i \in NewCallsFor(k) : gateway'[i].ok]_vars

\* C13 (as claimed): no reminder row is dispatched by SMS through the
\* gateway more than once.
C13_DispatchedAtMostOnce ==
    \A k \in 1..Len(reminders) :
        Cardinality({ i \in 1..Len(gateway) :
                         /\ gateway[i].reminder = k
                         /\ gateway[i].channel = "sms" }) <= 1

\* the outcome the keywords give, matched as whole replies, case-insensitively
KeywordOutcome(response) ==
    IF response_upper(response) \in {Chars("YES"), Chars("CONFIRM")}
    THEN "confirmed"
    ELSE IF response_upper(response) \in {Chars("NO"), Chars("CANCEL")}
    THEN "cancelled"
    ELSE response

\* the rows whose response a step has written
WrittenRows ==
    { k \in 1..Len(reminders) : reminders'[k].response # reminders[k].response }

\* C14 (as claimed): the reply is stored as 'confirmed' for YES / CONFIRM,
\* as 'cancelled' for NO / CANCEL, and unchanged for every other text.
C14_KeywordMapping ==
    [][\A response \in AllReplyTexts :
          ProcessReminderResponse("4157642890", response)
              => \A k \in WrittenRows :
                    reminders'[k].response = KeywordOutcome(response)]_vars

\* the rows of the first patient with that phone that are unsent, unanswered
Candidates(phone_number) ==
    { k \in 1..Len(reminders) :
         /\ \E p \in 1..Len(patients) :
               /\ patients[p].phone = phone_number
               /\ \A q \in 1..(p - 1) : patients[q].phone # phone_number
               /\ reminders[k].patient_id = patients[p].id
         /\ reminders[k].sent = FALSE
         /\ reminders[k].response = None }

C16_ResponseWrittenOnce ==
    [][/\ \A k \in 1..Len(reminders) :
             reminders[k].response # None
                 => reminders'[k].response = reminders[k].response
       /\ (\E phone_number \in ReplyPhones, response \in ReplyTexts :
              ProcessReminderResponse(phone_number, response))
              => \A k \in 1..Len(reminders) :
                    reminders'[k].sent = reminders[k].sent]_vars

\* two replies of one patient were stored, on two rows, with different texts
C16_Witness ==
    /\ result.op = "process_reminder_response"
    /\ \E j, k \in 1..Len(reminders) :
          /\ j < k
          /\ reminders[j].patient_id = reminders[k].patient_id
          /\ reminders[j].response = "confirmed"
          /\ reminders[k].response = "maybe"
    /\ \E k \in 1..Len(reminders) : reminders[k].sent

(***************************************************************************)
(* database.py : update_appointment_status                                 *)
(***************************************************************************)
\* an update that leaves updated_at as it was
update_appointment_status_KeepsTimestamp(appts, appointment_id, status) ==
    LET hits == { i \in 1..Len(appts) : appts[i].id = appointment_id }
    IN  IF hits = {} THEN appts
        ELSE [appts EXCEPT ![Earliest(hits)].status = status]

\* the ledger after update_appointment_status: the first row with that id
update_appointment_status(appts, appointment_id, status) ==
    LET hits == { i \in 1..Len(appts) : appts[i].id = appointment_id }
    IN  IF hits = {} THEN appts
        ELSE [appts EXCEPT ![Earliest(hits)].status = status,
                           ![Earliest(hits)].updated_at = now]

UpdateAppointmentStatus(appointment_id, status) ==
    /\ appointments' = update_appointment_status(appointments, appointment_id,
                                                 status)
    /\ result' = [op |-> "update_appointment_status",
                  ok |-> \E i \in 1..Len(appointments) :
                            appointments[i].id = appointment_id]
    /\ UNCHANGED <<doctors, reminders, patients, emr, now>>
    /\ UNCHANGED comms

StatusAppointmentIds == {"APT0001", "APT0002", "APT0009"}

InitStatus ==
    /\ doctors = <<>>
    /\ appointments = <<>>
    /\ reminders = <<>>
    /\ patients = <<>>
    /\ emr = <<>>
    /\ now = 0
    /\ result = [op |-> "init"]
    /\ CommsIdle

NextStatus ==
    \/ \E appointment_time \in {[h |-> 9, m |-> 0], [h |-> 24, m |-> 0]} :
          BookAppointment("P0001", "D001", 1, appointment_time, 30)
    \/ \E appointment_id \in StatusAppointmentIds, status \in AppointmentStatus :
          UpdateAppointmentStatus(appointment_id, status)
    \/ Advance

SpecStatus == InitStatus /\ [][NextStatus]_vars

\* C17: an update for an unknown id reports failure and changes nothing; an
\* update for a stored id sets that appointment's status and updated_at,
\* whatever its status was, and changes nothing else.
C17_StatusUpdate ==
    [][\A appointment_id \in StatusAppointmentIds, status \in AppointmentStatus :
          UpdateAppointmentStatus(appointment_id, status)
              => IF \A i \in 1..Len(appointments) :
                       appointments[i].id # appointment_id
                 THEN /\ appointments' = appointments
                      /\ result'.ok = FALSE
                 ELSE /\ result'.ok = TRUE
                      /\ Len(appointments') = Len(appointments)
                      /\ \A i \in 1..Len(appointments) :
                            IF appointments[i].id = appointment_id
                            THEN appointments'[i] =
                                     [appointments[i] EXCEPT !.status = status,
                                                             !.updated_at = now]
                            ELSE appointments'[i] = appointments[i]]_vars

\* a status was written after the booking, the other appointment was not
\* touched, and a terminal status was replaced by 'scheduled'
C17_Witness ==
    /\ result.op = "update_appointment_status"
    /\ result.ok
    /\ Len(appointments) = 2
    /\ appointments[1].status = "scheduled"
    /\ appointments[1].updated_at > appointments[2].updated_at
    /\ appointments[1].updated_at > appointments[1].created_at
    /\ appointments[2].status = "completed"
    /\ appointments[2].updated_at > appointments[2].created_at

(***************************************************************************)
(* Claims about the ids of the ledger and about the gateway.               *)
(***************************************************************************)
\* C18: from an empty ledger, every successful book stores its appointment
\* with status 'scheduled' and with an id no earlier appointment has; so
\* all stored ids are distinct.
C18_UniqueIdsScheduled ==
    [][Len(appointments') = Len(appointments) + 1
          => /\ appointments'[Len(appointments')].status = "scheduled"
             /\ \A i \in 1..Len(appointments) :
                   /\ appointments'[i] = appointments[i]
                   /\ appointments'[i].id # appointments'[Len(appointments')].id
             /\ \A i, j \in 1..Len(appointments') :
                   i # j => appointments'[i].id # appointments'[j].id]_vars

\* two appointments were booked
C18_Witness ==
    /\ result.op = "book"
    /\ result.status = "SUCCESS"
    /\ Len(appointments) = 2
    /\ appointments[1].id # appointments[2].id

\* destinations the gateway must treat as test numbers
TestDestinations == {"5551234567", "48-76"}

\* C19: a send_sms to a test destination succeeds and makes no call to the
\* provider, whether Twilio is enabled, disabled or failing.
C19_TestNumberNotTransmitted ==
    \A i \in 1..Len(gateway) :
        (gateway[i].channel = "sms" /\ gateway[i].to \in TestDestinations)
            => (gateway[i].ok /\ ~gateway[i].attempted)

\* with Twilio enabled and failing for a real number, the test numbers
\* were sent to
C19_Witness ==
    /\ services.twilio_enabled
    /\ \E i \in 1..Len(gateway) : gateway[i].to = "5551234567"
    /\ \E i \in 1..Len(gateway) : gateway[i].to = "48-76"
    /\ \E i \in 1..Len(gateway) :
          gateway[i].channel = "sms" /\ gateway[i].attempted /\ ~gateway[i].ok

\* the calls of a channel so far
Calls(channel) == { i \in 1..Len(gateway) : gateway[i].channel = channel }

\* C20 (as claimed): every send_sms call has its entry in the SMS log and
\* every send_email call has its entry in the email log.
C20_EveryDispatchLogged ==
    /\ Len(sms_log) = Cardinality(Calls("sms"))
    /\ Len(email_log) = Cardinality(Calls("email"))

(***************************************************************************)
(* communication.py : what send_sms reports                                *)
(***************************************************************************)
\* the numbers of SmsDestinations that are handed to the provider
RealDestinations == SmsDestinations \ (TestDestinations \cup {None})

\* C21: send_sms returns False exactly when Twilio is enabled, the number is
\* not a test number and the provider raised an error that is not an account
\* limitation, and then appends one FAILED entry to the SMS log; a limitation
\* appends one "SIMULATED (Twilio limit)" entry and returns True.
C21_FailureOnlyOnProviderError ==
    [][\A phone_number \in SmsDestinations, outcome \in SmsOutcomes :
          SendSms(phone_number, outcome) =>
             LET transmitted == /\ services.twilio_enabled
                                /\ phone_number \in RealDestinations
                 entry == sms_log'[Len(sms_log')]
             IN  /\ result'.ok = ~(transmitted /\ outcome = "error")
                 /\ gateway'[Len(gateway')].ok = result'.ok
                 /\ ~result'.ok => gateway'[Len(gateway')].attempted
                 /\ (transmitted /\ outcome = "limit") =>
                        /\ Len(sms_log') = Len(sms_log) + 1
                        /\ entry.kind = "SIMULATED (Twilio limit)"
                 /\ (transmitted /\ outcome = "error") =>
                        /\ Len(sms_log') = Len(sms_log) + 1
                        /\ entry.kind = "FAILED"
                 /\ \A i \in 1..Len(sms_log) : sms_log'[i] = sms_log[i]]_vars

\* the provider refused one message for an account limitation and failed on
\* another: the first is logged as simulated, the second as failed, and the
\* last call returned False
C21_Witness ==
    /\ services.twilio_enabled
    /\ \E i \in 1..Len(sms_log) : sms_log[i].kind = "SIMULATED (Twilio limit)"
    /\ \E i \in 1..Len(sms_log) : sms_log[i].kind = "FAILED"
    /\ result.op = "send_sms" /\ ~result.ok
    /\ \E i \in 1..Len(gateway) :
          gateway[i].channel = "sms" /\ gateway[i].attempted /\ gateway[i].ok

(***************************************************************************)
(* simple_agent_fixed.py : a booking and the notifications that follow it  *)
(***************************************************************************)
\* what the conversation has collected when the booking is made: everything
\* needed, or the phone missing
NotifyData ==
    [first_name : {"Ann"},
     last_name : {"Lee"},
     date_of_birth : {"1990-01-01"},
     phone : {None, "4151230001", "5551234567"},
     email : {None, "ann@clinic.org"}]

InitNotify ==
    /\ doctors = <<>>
    /\ appointments = <<>>
    /\ reminders = <<>>
    /\ patients = <<>>
    /\ emr = <<>>
    /\ now = 0
    /\ result = [op |-> "init"]
    /\ sms_log = <<>>
    /\ email_log = <<>>
    /\ gateway = <<>>
    /\ services \in ServiceSetups
    /\ frames = <<>>
    /\ scheduler = [running |-> FALSE, jobs |-> <<>>, threads |-> 0]

NextNotify ==
    \/ \E cd \in NotifyData, sends \in SendOutcomes :
          HandleAppointmentBooking(cd, {}, sends)
    \/ Tick

SpecNotify == InitNotify /\ [][NextNotify]_vars

\* C22: whatever the confirmation email, the confirmation SMS and the intake
\* forms email do (succeed, fail or raise), a booking that committed its
\* appointment is reported as booked, the appointment is stored with status
\* 'scheduled', and the appointments stored before it are kept as they were.
C22_NotificationsNeverBlockBooking ==
    [][/\ \A i \in 1..Len(appointments) :
             /\ i <= Len(appointments')
             /\ appointments'[i] = appointments[i]
       /\ \A i \in 1..Len(appointments') :
             appointments'[i].status = "scheduled"
       /\ Len(appointments') > Len(appointments) =>
             /\ result'.op = "agent_booking"
             /\ result'.status = "booked"
             /\ appointments'[Len(appointments')].id = result'.appointment_id
      ]_vars

\* a booking reported as booked although a send failed at the provider and
\* another raised
C22_Witness ==
    /\ result.op = "agent_booking" /\ result.status = "booked"
    /\ Len(appointments) = 2
    /\ \E i \in 1..Len(gateway) : gateway[i].attempted /\ ~gateway[i].ok
    /\ \E i \in 1..Len(gateway) : ~gateway[i].attempted /\ ~gateway[i].ok
    /\ \E i \in 1..Len(appointments) :
          appointments[i].id = result.appointment_id

StoredRows(patient_id) ==
    { [PatientRecord(patient_id, "Ann", "Lee", ph, "ann@clinic.org", FALSE)
          EXCEPT !.total_visits = v, !.patient_type = t] :
        ph \in Phones, v \in 0..MaxVisits, t \in {"new", "returning"} }

\* the tables resolution can find: patient_id is the primary key
StoredDirectories ==
    {<<>>}
      \cup { <<r>> : r \in StoredRows("EMR_001") \cup StoredRows("EMR_002") }
      \cup { <<r1, r2>> : r1 \in StoredRows("EMR_001"),
                          r2 \in StoredRows("EMR_002") }

InitResolve ==
    /\ doctors = <<>>
    /\ appointments = <<>>
    /\ reminders = <<>>
    /\ patients = <<>>
    /\ emr \in StoredDirectories
    /\ now = 0
    /\ result = [op |-> "init"]
    /\ CommsIdle

NextResolve ==
    \/ \E ph \in Phones \cup {None}, e \in Emails \cup {None},
          n \in NameInputs, failing \in Outages :
          DetectPatientType(ph, e, n[1], n[2], failing)
    \/ \E id \in EmrIds : UpdatePatientVisit(id)

SpecResolve == InitResolve /\ [][NextResolve]_vars

\* C24: a detect_patient_type call leaves the directory as it was, returns
\* 'returning' exactly when it matched a record whose total_visits is above
\* 0, whatever the record's stored patient_type, and returns a record of the
\* directory or none.
C24_ResolutionReadsOnly ==
    [][result'.op = "detect" =>
          /\ emr' = emr
          /\ result'.found.patient # NoRecord =>
                /\ result'.found.patient \in Range(emr)
                /\ (result'.found.patient_type = "returning")
                      <=> (result'.found.patient.total_visits > 0)
          /\ result'.found.patient = NoRecord =>
                result'.found.patient_type = "new"]_vars

\* resolution found a record with a visit whose stored type is 'new' and
\* answered 'returning'
C24_Witness ==
    /\ result.op = "detect"
    /\ result.found.patient # NoRecord
    /\ result.found.patient.total_visits > 0
    /\ result.found.patient.patient_type = "new"
    /\ result.found.patient_type = "returning"

(***************************************************************************)
(* database.py / tools.py : concurrent calls on the appointment ledger.    *)
(* Nothing serialises the callers (no lock, no atomic rename): a call is   *)
(* a read of the whole file, a change of the copy in memory and a write of *)
(* the whole file, and the calls of other threads or sessions run between  *)
(* its steps.  A read sees a whole file, never a half-written one.         *)
(***************************************************************************)
\* the threads or sessions that call the tools
Callers == {"c1", "c2"}

\* a caller outside any call; reported: the appointments whose book has
\* returned SUCCESS to this caller
IdleFrame ==
    [pc |-> "idle", loaded |-> <<>>, request |-> NoRecord, reported |-> <<>>]

\* book calls begun so far, finished or not
BooksBegun ==
    LET RECURSIVE Sum(_)
        Sum(S) == IF S = {} THEN 0
                  ELSE LET c == CHOOSE x \in S : TRUE
                       IN  Len(frames[c].reported)
                             + (IF frames[c].pc \in {"save", "write"}
                                THEN 1 ELSE 0)
                             + Sum(S \ {c})
    IN  Sum(Callers)

\* BookAppointmentTool._run up to the Appointment object: the ledger is read
\* once for the id
BookLoad(c, patient_id, appointment_time) ==
    /\ frames[c].pc = "idle"
    /\ BooksBegun < MaxAppointments
    /\ frames' = [frames EXCEPT
                     ![c].pc = "save",
                     ![c].request =
                        appointment_data(AppointmentId(appointments),
                                         patient_id, "D001", 1,
                                         appointment_time, 30)]
    /\ result' = [op |-> "book_load", caller |-> c]
    /\ UNCHANGED <<doctors, appointments, reminders, patients, emr, now>>
    /\ UNCHANGED <<sms_log, email_log, gateway, services, scheduler>>

\* save_appointment: load_appointments()
SaveLoad(c) ==
    /\ frames[c].pc = "save"
    /\ frames' = [frames EXCEPT ![c].pc = "write",
                                ![c].loaded = appointments]
    /\ result' = [op |-> "save_load", caller |-> c]
    /\ UNCHANGED <<doctors, appointments, reminders, patients, emr, now>>
    /\ UNCHANGED <<sms_log, email_log, gateway, services, scheduler>>

\* save_appointment: append to the list read, json.dump, return True; _run
\* returns SUCCESS
SaveWrite(c) ==
    /\ frames[c].pc = "write"
    /\ appointments' = save_appointment(frames[c].loaded, frames[c].request)
    /\ frames' = [frames EXCEPT
                     ![c].pc = "idle",
                     ![c].loaded = <<>>,
                     ![c].request = NoRecord,
                     ![c].reported = Append(@, frames[c].request)]
    /\ result' = [op |-> "book", caller |-> c, status |-> "SUCCESS"]
    /\ UNCHANGED <<doctors, reminders, patients, emr, now>>
    /\ UNCHANGED <<sms_log, email_log, gateway, services, scheduler>>

\* update_appointment_status: load_appointments() and the change of the
\* row in memory; an unknown id returns False at once
UpdateLoad(c, appointment_id, status) ==
    /\ frames[c].pc = "idle"
    /\ IF \E i \in 1..Len(appointments) : appointments[i].id = appointment_id
       THEN frames' = [frames EXCEPT
                          ![c].pc = "update_write",
                          ![c].loaded =
                             update_appointment_status(appointments,
                                                       appointment_id, status)]
       ELSE UNCHANGED frames
    /\ result' = [op |-> "update_load", caller |-> c]
    /\ UNCHANGED <<doctors, appointments, reminders, patients, emr, now>>
    /\ UNCHANGED <<sms_log, email_log, gateway, services, scheduler>>

\* update_appointment_status: json.dump of the list read, return True
UpdateWrite(c) ==
    /\ frames[c].pc = "update_write"
    /\ appointments' = frames[c].loaded
    /\ frames' = [frames EXCEPT ![c].pc = "idle", ![c].loaded = <<>>]
    /\ result' = [op |-> "update_appointment_status", caller |-> c,
                  ok |-> TRUE]
    /\ UNCHANGED <<doctors, reminders, patients, emr, now>>
    /\ UNCHANGED <<sms_log, email_log, gateway, services, scheduler>>

\* each caller books for its own patient
CallerPatient(c) == IF c = "c1" THEN "P0001" ELSE "P0002"

InitLedgerRace ==
    /\ doctors = <<>>
    /\ appointments = <<>>
    /\ reminders = <<>>
    /\ patients = <<>>
    /\ emr = <<>>
    /\ now = 0
    /\ result = [op |-> "init"]
    /\ sms_log = <<>>
    /\ email_log = <<>>
    /\ gateway = <<>>
    /\ services = [twilio_enabled |-> FALSE, email_configured |-> FALSE]
    /\ scheduler = [running |-> FALSE, jobs |-> <<>>, threads |-> 0]
    /\ frames = [c \in Callers |-> IdleFrame]

NextLedgerRace ==
    \/ \E c \in Callers, h \in {9, 10} :
          BookLoad(c, CallerPatient(c), [h |-> h, m |-> 0])
    \/ \E c \in Callers : SaveLoad(c)
    \/ \E c \in Callers : SaveWrite(c)
    \/ \E c \in Callers, appointment_id \in {"APT0001", "APT0002"},
          status \in {"cancelled", "completed"} :
          UpdateLoad(c, appointment_id, status)
    \/ \E c \in Callers : UpdateWrite(c)

SpecLedgerRace == InitLedgerRace /\ [][NextLedgerRace]_vars

\* the appointment a finished book reported is in the ledger
Stored(reported) ==
    \E i \in 1..Len(appointments) :
        /\ appointments[i].id = reported.id
        /\ appointments[i].patient_id = reported.patient_id
        /\ appointments[i].appointment_time = reported.appointment_time

\* C25 (as claimed): in every interleaving of book and
\* update_appointment_status calls, every appointment whose book returned
\* SUCCESS is stored in the ledger, and the ids of the ledger are pairwise
\* distinct.
C25_LedgerAppendOnly ==
    /\ \A c \in Callers :
          \A k \in 1..Len(frames[c].reported) : Stored(frames[c].reported[k])
    /\ \A i, j \in 1..Len(appointments) :
          i # j => appointments[i].id # appointments[j].id

(***************************************************************************)
(* communication.py / database.py : the dispatch thread and the foreground *)
(* on the reminder store, each call a read of the whole file, a change of  *)
(* the copy in memory and a write of the whole file.                       *)
(***************************************************************************)
\* the scheduler thread (_mark_reminder_sent) and the thread serving the
\* user (save_reminder, process_reminder_response)
ReminderThreads == {"dispatch", "foreground"}

\* saved: the save_reminder calls the thread has begun
IdleThread == [pc |-> "idle", loaded |-> <<>>, saved |-> 0]

MaxSaves == 1

\* _mark_reminder_sent: load_reminders() and the change of the row
MarkLoad(reminder_id) ==
    /\ frames["dispatch"].pc = "idle"
    /\ frames' = [frames EXCEPT
                     !["dispatch"] =
                        [pc |-> "write",
                         loaded |-> mark_reminder_sent(reminders, reminder_id),
                         saved |-> 0]]
    /\ result' = [op |-> "mark_load"]
    /\ UNCHANGED <<doctors, appointments, reminders, patients, emr, now>>
    /\ UNCHANGED <<sms_log, email_log, gateway, services, scheduler>>

\* save_reminder: load_reminders() and the append
ReminderLoad(data) ==
    /\ frames["foreground"].pc = "idle"
    /\ frames["foreground"].saved < MaxSaves
    /\ frames' = [frames EXCEPT
                     !["foreground"] =
                        [pc |-> "write",
                         loaded |-> save_reminder(reminders, data),
                         saved |-> @.saved + 1]]
    /\ result' = [op |-> "save_load"]
    /\ UNCHANGED <<doctors, appointments, reminders, patients, emr, now>>
    /\ UNCHANGED <<sms_log, email_log, gateway, services, scheduler>>

\* process_reminder_response: load_reminders(), load_patients() and the
\* change of the row; without patient or pending reminder it returns at once
ResponseLoad(phone_number, response) ==
    /\ frames["foreground"].pc = "idle"
    /\ IF process_reminder_response(reminders, patients, phone_number,
                                    response) # reminders
       THEN frames' = [frames EXCEPT
                          !["foreground"] =
                             [pc |-> "write",
                              loaded |->
                                 process_reminder_response(reminders, patients,
                                                           phone_number,
                                                           response),
                              saved |-> @.saved]]
       ELSE UNCHANGED frames
    /\ result' = [op |-> "response_load"]
    /\ UNCHANGED <<doctors, appointments, reminders, patients, emr, now>>
    /\ UNCHANGED <<sms_log, email_log, gateway, services, scheduler>>

\* json.dump of the list the thread holds
StoreWrite(t) ==
    /\ frames[t].pc = "write"
    /\ reminders' = frames[t].loaded
    /\ frames' = [frames EXCEPT ![t].pc = "idle", ![t].loaded = <<>>]
    /\ result' = [op |-> "store_write", thread |-> t]
    /\ UNCHANGED <<doctors, appointments, patients, emr, now>>
    /\ UNCHANGED <<sms_log, email_log, gateway, services, scheduler>>

\* the store when the race begins: the three reminders of an appointment
RaceReminders ==
    schedule_reminders(<<>>, "APT0001", "P0001", 1, [h |-> 1, m |-> 0])

InitReminderRace ==
    /\ now = 0
    /\ doctors = <<>>
    /\ appointments = SchedulerAppointments
    /\ reminders = RaceReminders
    /\ patients = SchedulerPatients
    /\ emr = <<>>
    /\ result = [op |-> "init"]
    /\ sms_log = <<>>
    /\ email_log = <<>>
    /\ gateway = <<>>
    /\ services = [twilio_enabled |-> FALSE, email_configured |-> FALSE]
    /\ scheduler = [running |-> TRUE, jobs |-> <<JobPeriodMinutes>>,
                    threads |-> 1]
    /\ frames = [t \in ReminderThreads |-> IdleThread]

NextReminderRace ==
    \/ \E k \in 1..Len(reminders) : MarkLoad(reminders[k].id)
    \/ ReminderLoad(reminder_data("APT0002", "P0001", 1, [h |-> 1, m |-> 0], 1))
    \/ \E phone_number \in ReplyPhones, response \in ReplyTexts :
          ResponseLoad(phone_number, response)
    \/ \E t \in ReminderThreads : StoreWrite(t)

SpecReminderRace == InitReminderRace /\ [][NextReminderRace]_vars

\* C26 (as claimed): in every interleaving of _mark_reminder_sent with
\* save_reminder and process_reminder_response, no row of the reminder
\* store disappears, no sent flag that is true becomes false and no
\* response that is set becomes None.
C26_NoLostReminderUpdate ==
    [][\A k \in 1..Len(reminders) :
          /\ k <= Len(reminders')
          /\ reminders'[k].id = reminders[k].id
          /\ reminders[k].sent => reminders'[k].sent
          /\ reminders[k].response # None => reminders'[k].response # None
      ]_vars

(***************************************************************************)
(* communication.py : the hourly job and the due window                    *)
(***************************************************************************)
\* the clock observed every half hour, so that the scheduler can be started
\* on the hour of a reminder or off it
DispatchInstants == {0, 30, 60, 90, 120, 150}

\* the last instant of the clock
Horizon ==
    CHOOSE t \in DispatchInstants : \A u \in DispatchInstants : u <= t

AdvanceDispatch == AdvanceWithin(DispatchInstants)

\* an appointment at 03:00 of day 0: its form check is due at 01:00 (minute
\* 60), its confirmation at 02:00 (minute 120)
InitDispatch ==
    /\ now = 0
    /\ doctors = <<>>
    /\ appointments = SchedulerAppointments
    /\ reminders = <<>>
    /\ patients = SchedulerPatients
    /\ emr = <<>>
    /\ result = [op |-> "init"]
    /\ sms_log = <<>>
    /\ email_log = <<>>
    /\ gateway = <<>>
    /\ services \in SchedulerServices
    /\ frames = <<>>
    /\ scheduler = [running |-> FALSE, jobs |-> <<>>, threads |-> 0]

\* the scheduler is started and never stopped
NextDispatch ==
    \/ ScheduleReminders("APT0001", "P0001", 0, [h |-> 3, m |-> 0])
    \/ StartScheduler
    \/ \E sms_outcome \in SmsOutcomes, smtp_outcome \in SmtpOutcomes :
          RunScheduler(sms_outcome, smtp_outcome)
    \/ AdvanceDispatch

SpecDispatch == InitDispatch /\ [][NextDispatch]_vars

\* a turn of the loop of _run_scheduler can be taken
RunEnabled ==
    /\ scheduler.threads > 0
    /\ ~scheduler.running \/ (JobPending /\ Len(gateway) < MaxGateway)

\* time passes, and the thread of _run_scheduler keeps running its loop:
\* weak fairness of Advance and of RunScheduler, the latter written out
\* (always eventually not enabled, or always eventually taken)
FairDispatch ==
    /\ SpecDispatch
    /\ WF_vars(AdvanceDispatch)
    /\ \/ []<>(~RunEnabled)
       \/ []<><<result'.op = "run_scheduler">>_vars

\* row k is an unsent reminder that comes due, within the clock's horizon,
\* while the scheduler runs
AwaitsDispatch(k) ==
    /\ k <= Len(reminders)
    /\ ~reminders[k].sent
    /\ scheduler.running /\ scheduler.threads > 0
    /\ reminders[k].scheduled_time > now
    /\ reminders[k].scheduled_time + DueWindowMinutes < Horizon

\* a scan has sent row k through the gateway (a scan sends only rows that
\* are inside their due window)
Dispatched(k) ==
    \E i \in 1..Len(gateway) : gateway[i].reminder = k

\* C27 (as claimed): while the scheduler runs, an unsent reminder whose
\* scheduled time is still ahead is eventually dispatched by a scan, whenever
\* the scheduler was started; stated for row 2 of the store, the form check
\* of the first request, due at minute 60.
C27_DueReminderDispatched ==
    AwaitsDispatch(2) ~> Dispatched(2)

(***************************************************************************)
(* communication.py : what one scan dispatches                             *)
(***************************************************************************)
\* row k of the store is unsent and within five minutes of its scheduled time
DueNow(k) ==
    /\ ~reminders[k].sent
    /\ Abs(now - reminders[k].scheduled_time) <= DueWindowMinutes

\* C28 (as claimed): a turn of the loop that runs one scan sends exactly the
\* reminders that are unsent and within 5 minutes of their scheduled time;
\* every other reminder is not sent and is left as it was.
C28_ScanDispatchesExactlyDue ==
    [][(result'.op = "run_scheduler" /\ result'.scans = 1) =>
          \A k \in 1..Len(reminders) :
              /\ DueNow(k) <=>
                    \E i \in (Len(gateway) + 1)..Len(gateway') :
                        gateway'[i].reminder = k
              /\ ~DueNow(k) => reminders'[k] = reminders[k]]_vars

(***************************************************************************)
(* database.py : availability of a provider without appointments           *)
(***************************************************************************)
\* the Doctor rows with this id
RowsOf(doctor_id) == { i \in 1..Len(doctors) : doctors[i].id = doctor_id }

\* the weekday template of the provider's first row, or no hours
TemplateHours(doctor_id, appointment_date) ==
    IF RowsOf(doctor_id) = {} THEN <<>>
    ELSE LET doctor == doctors[Earliest(RowsOf(doctor_id))]
         IN  IF DayName(appointment_date) \in doctor.available_days
             THEN doctor.available_hours[DayName(appointment_date)]
             ELSE <<>>

\* an hour outside lunch whose two half-hour sub-slots lie in [9:00, 17:00)
OpenHour(h) ==
    /\ ~(12 <= h /\ h < 13)
    /\ 9 * 60 <= 60 * h
    /\ 60 * h + 30 < 17 * 60

\* C29: when the provider has no appointment on the date,
\* get_available_slots(provider, date, 60) returns, in template order and as
\* 'HH:00', exactly the template hours of that weekday that are outside
\* lunch [12, 13) and whose two sub-slots lie in [9, 17); it returns the
\* empty list for an unknown provider or a weekday without template entry.
C29_EmptyDaySlots ==
    (/\ result.op = "slots"
     /\ result.request.duration = 60
     /\ \A i \in 1..Len(appointments) :
           ~(/\ appointments[i].doctor_id = result.request.doctor_id
             /\ appointments[i].appointment_date =
                   result.request.appointment_date))
        => LET open == SelectSeq(TemplateHours(result.request.doctor_id,
                                               result.request.appointment_date),
                                 OpenHour)
           IN  result.slots = [k \in 1..Len(open) |-> [h |-> open[k], m |-> 0]]

\* a 9-to-17 template with an appointment on another day: '09:00' and
\* '16:00' are offered, '12:00' is not
C29_Witness ==
    /\ result.op = "slots"
    /\ result.request.duration = 60
    /\ result.request.appointment_date = 2
    /\ Len(appointments) > 0
    /\ TemplateHours(result.request.doctor_id, 2) = OfficeHours
    /\ [h |-> 9, m |-> 0] \in Range(result.slots)
    /\ [h |-> 16, m |-> 0] \in Range(result.slots)
    /\ [h |-> 12, m |-> 0] \notin Range(result.slots)
    /\ Len(result.slots) = 7

(***************************************************************************)
(* database.py : availability after a status change                        *)
(***************************************************************************)
OccupancyDurations == {30, 60}

InitOccupancy ==
    /\ doctors = <<Doctor("D001", [d \in {"Tuesday", "Wednesday"} |->
                                      OfficeHours])>>
    /\ appointments = <<>>
    /\ reminders = <<>>
    /\ patients = <<>>
    /\ emr = <<>>
    /\ now = 0
    /\ result = [op |-> "init"]
    /\ CommsIdle

NextOccupancy ==
    \/ \E h \in {9, 10}, duration \in OccupancyDurations :
          BookAppointment("P0001", "D001", 1, [h |-> h, m |-> 0], duration)
    \/ \E appointment_id \in {"APT0001", "APT0002"}, status \in AppointmentStatus :
          UpdateAppointmentStatus(appointment_id, status)
    \/ \E dt \in DateInputs, duration \in OccupancyDurations :
          GetAvailableSlots("D001", dt, duration)

SpecOccupancy == InitOccupancy /\ [][NextOccupancy]_vars

\* what get_available_slots would answer on the ledger appts
Answers(appts) ==
    [dt \in DateInputs, duration \in OccupancyDurations |->
        get_available_slots(appts, "D001", dt, duration)]

\* C30: a step that changes only statuses (update_appointment_status, to
\* 'cancelled' or any other status) leaves every answer of
\* get_available_slots as it was, and after it the start hour of every
\* stored appointment, whatever its status, is not offered.
C30_CancelledKeepsItsTime ==
    [][(Len(appointments') = Len(appointments)
           /\ appointments' # appointments)
          => /\ Answers(appointments') = Answers(appointments)
             /\ \A i \in 1..Len(appointments') :
                   [h |-> appointments'[i].appointment_time.h, m |-> 0] \notin
                      Range(Answers(appointments')[
                                appointments'[i].appointment_date, 30])]_vars

\* the 09:00 appointment was cancelled, and the slots asked for its day do
\* not offer 09:00 while 11:00 is offered
C30_Witness ==
    /\ result.op = "slots"
    /\ result.request.appointment_date = 1
    /\ \E i \in 1..Len(appointments) :
          /\ appointments[i].status = "cancelled"
          /\ appointments[i].appointment_time = [h |-> 9, m |-> 0]
    /\ [h |-> 9, m |-> 0] \notin Range(result.slots)
    /\ [h |-> 11, m |-> 0] \in Range(result.slots)

(***************************************************************************)
(* database.py : get_available_slots with durations that span more than    *)
(* two 30-minute sub-slots.                                                *)
(***************************************************************************)
LunchDurations == {30, 60, 90, 120}

NextLunch ==
    \/ \E t \in TimeInputs, duration \in LunchDurations :
          BookAppointment("P0001", "D001", 1, t, duration)
    \/ \E d \in DoctorIds, dt \in DateInputs, duration \in LunchDurations :
          GetAvailableSlots(d, dt, duration)

SpecLunch == Init /\ [][NextLunch]_vars

\* the sub-slot starting at minute x of the day lies in the lunch break
InLunchBreak(x) ==
    /\ MinutesPerHour * LUNCH_BREAK_START <= x
    /\ x < MinutesPerHour * LUNCH_BREAK_END

\* C31 (as claimed): no start time returned by get_available_slots has one of
\* its required 30-minute sub-slots inside the lunch break [12:00, 13:00),
\* for every requested duration.
C31_SlotsAvoidLunch ==
    result.op = "slots" =>
        \A i \in 1..Len(result.slots) :
            \A x \in SubSlots(StartMinute(result.slots[i]),
                              result.request.duration) : ~InLunchBreak(x)

\* C32 (as claimed): the list get_available_slots returns is in strictly
\* ascending time order, so no start time is repeated, for every provider
\* template.
C32_SlotsAscending ==
    result.op = "slots" =>
        \A i, j \in 1..Len(result.slots) :
            i < j => StartMinute(result.slots[i]) < StartMinute(result.slots[j])

(***************************************************************************)
(* simple_agent_fixed.py : the duration the booking flow books             *)
(***************************************************************************)
\* the collected data the booking flow accepts: required fields present and
\* an email the Patient model takes
Bookable(cd) ==
    /\ \A f \in {"first_name", "date_of_birth", "phone"} : Truthy(cd[f])
    /\ validate_email(GetOr(cd.email, DefaultEmail))

\* the resolution result computed for a booking with collected data cd
Resolution(cd, failing) ==
    detect_patient_type(emr, LookupPhone(cd.phone), LookupEmail(cd.email),
                        cd.first_name, GetOr(cd.last_name, "Patient"),
                        failing)

\* C33 (as claimed): a booking by the agent with bookable contact data
\* commits one appointment whose duration is the Duration Policy applied to
\* the resolution result of that booking: 30 minutes when the contact
\* resolves to a record with total_visits > 0, 60 minutes otherwise.
C33_BookedDurationFollowsPolicy ==
    [][\A cd \in CollectedData, failing \in Outages,
          sms_outcome \in SmsOutcomes, smtp_outcome \in SmtpOutcomes :
          (/\ Bookable(cd)
           /\ HandleAppointmentBooking(cd, failing,
                  <<smtp_outcome, sms_outcome, smtp_outcome>>))
          => /\ Len(appointments') = Len(appointments) + 1
             /\ appointments'[Len(appointments')].duration =
                   get_smart_duration(Resolution(cd, failing).patient,
                                      Resolution(cd, failing).patient_type)]_vars

\* C35 (as claimed): every appointment stored by the agent booking flow has
\* the id of a patient present in the patient store as its patient_id,
\* also after add_new_patient rejected a duplicate and after repeated
\* bookings.
C35_AppointmentPatientStored ==
    \A i \in 1..Len(appointments) :
        \E k \in 1..Len(patients) : patients[k].id = appointments[i].patient_id

(***************************************************************************)
(* database.py / emr_database.py : completing an appointment and the       *)
(* patient's visit count.  The ledger row carries the directory id of the  *)
(* patient.                                                                *)
(***************************************************************************)
VisitPatient ==
    PatientRecord("EMR_001", "Ann", "Lee", "4151230001", "ann@clinic.org",
                  FALSE)

InitVisit ==
    /\ doctors = <<>>
    /\ appointments = <<>>
    /\ reminders = <<>>
    /\ patients = <<>>
    /\ emr = <<VisitPatient>>
    /\ now = 0
    /\ result = [op |-> "init"]
    /\ CommsIdle

NextVisit ==
    \/ \E h \in {9, 10} :
          BookAppointment(VisitPatient.patient_id, "D001", 1,
                          [h |-> h, m |-> 0],
                          get_smart_duration(
                              detect_patient_type(emr, VisitPatient.phone,
                                  None, None, None, {}).patient,
                              detect_patient_type(emr, VisitPatient.phone,
                                  None, None, None, {}).patient_type))
    \/ \E appointment_id \in {"APT0001", "APT0002"}, status \in AppointmentStatus :
          UpdateAppointmentStatus(appointment_id, status)
    \/ UpdatePatientVisit(VisitPatient.patient_id)
    \/ \E failing \in Outages :
          DetectPatientType(VisitPatient.phone, None, None, None, failing)
    \/ Tick

SpecVisit == InitVisit /\ [][NextVisit]_vars

\* C34 (as claimed): once an appointment has status 'completed', its
\* patient's total_visits has been incremented and the patient's type is
\* 'returning', so that resolving the patient yields 'returning' and a
\* 30-minute duration.
C34_CompletedCountsVisit ==
    \A i \in 1..Len(appointments) :
        appointments[i].status = "completed" =>
            \E k \in 1..Len(emr) :
                /\ emr[k].patient_id = appointments[i].patient_id
                /\ emr[k].total_visits > 0
                /\ emr[k].patient_type = "returning"
                /\ LET found == detect_patient_type(emr, emr[k].phone, None,
                                                    None, None, {})
                   IN  /\ found.patient_type = "returning"
                       /\ get_smart_duration(found.patient,
                                             found.patient_type) = 30

(***************************************************************************)
(* communication.py : ReminderScheduler.handle_webhook                     *)
(***************************************************************************)
\* the attributes of a ReminderScheduler object: those set in __init__ and
\* the methods of the class
ReminderSchedulerAttributes ==
    {"db", "email_service", "sms_service", "running",
     "start_scheduler", "stop_scheduler", "_run_scheduler",
     "_check_and_send_reminders", "_send_reminder", "_mark_reminder_sent",
     "process_reminder_response", "handle_webhook"}

WebhookError == "Error processing webhook"

\* the message handle_webhook returns: self.send_sms is looked up after
\* process_reminder_response has returned, and a missing attribute raises
\* AttributeError into the except clause
handle_webhook(rems, pats, From, Body) ==
    IF "send_sms" \in ReminderSchedulerAttributes
    THEN response_message(rems, pats, From, Body)
    ELSE WebhookError

HandleWebhook(From, Body) ==
    /\ reminders' = process_reminder_response(reminders, patients, From, Body)
    /\ result' = [op |-> "handle_webhook", From |-> From, Body |-> Body,
                  message |-> handle_webhook(reminders, patients, From, Body)]
    /\ UNCHANGED <<doctors, appointments, patients, emr, now>>
    /\ UNCHANGED comms

\* webhook_data.get('From', '') : a payload without From gives ''
WebhookPhones == ReplyPhones \cup {""}

NextWebhook ==
    \/ \E request \in SchedulerRequests :
          ScheduleReminders("APT0001", request[1], request[2], request[3])
    \/ \E phone_number \in ReplyPhones, response \in ReplyTexts :
          ProcessReminderResponse(phone_number, response)
    \/ \E From \in WebhookPhones, Body \in ReplyTexts :
          HandleWebhook(From, Body)

SpecWebhook == InitReplies /\ [][NextWebhook]_vars

\* C36 (as claimed): handle_webhook(From, Body) returns the message that
\* process_reminder_response(From, Body) produces, and when it returns
\* 'Error processing webhook' the reminder store is unchanged.
C36_WebhookReturnsResponse ==
    [][result'.op = "handle_webhook" =>
          /\ result'.message = response_message(reminders, patients,
                                                result'.From, result'.Body)
          /\ (result'.message = WebhookError => reminders' = reminders)]_vars

(***************************************************************************)
(* communication.py : one scan over reminders whose patient or appointment *)
(* is missing, with exceptions inside _send_reminder                       *)
(***************************************************************************)
\* _send_reminder for row k: for the rows in raising an exception is raised
\* inside the try block before anything is sent; the except clause prints
\* and returns
send_reminder_try(w, reminder_row, k, sms_outcome, smtp_outcome, raising) ==
    IF k \in raising THEN w
    ELSE send_reminder(w, reminder_row, k, sms_outcome, smtp_outcome)

\* the for loop of _check_and_send_reminders, from row k of the loaded list
RECURSIVE scan_reminders(_, _, _, _, _, _)
scan_reminders(w, loaded, k, sms_outcome, smtp_outcome, raising) ==
    IF k > Len(loaded) THEN w
    ELSE scan_reminders(
             IF ~loaded[k].sent /\ is_due(loaded[k])
             THEN send_reminder_try(w, loaded[k], k, sms_outcome,
                                    smtp_outcome, raising)
             ELSE w,
             loaded, k + 1, sms_outcome, smtp_outcome, raising)

\* one call of _check_and_send_reminders
CheckAndSendReminders(sms_outcome, smtp_outcome, raising) ==
    /\ Len(gateway) < MaxGateway
    /\ LET w == scan_reminders(World, reminders, 1, sms_outcome,
                               smtp_outcome, raising)
       IN  /\ reminders' = w.reminders
           /\ sms_log' = w.sms_log
           /\ email_log' = w.email_log
           /\ gateway' = w.gateway
    /\ result' = [op |-> "check_and_send_reminders", raising |-> raising]
    /\ UNCHANGED <<doctors, appointments, patients, emr, now>>
    /\ UNCHANGED <<services, scheduler, frames>>

\* the (appointment, patient) pairs handed to the reminder tool: both
\* stored, patient unknown, appointment unknown, and the agent's placeholders
ScanRequests ==
    { <<"APT0001", "P0001">>, <<"APT0001", "P0009">>, <<"APT0002", "P0002">>,
      <<"APT001", "TEMP001">> }

\* the rows in which _send_reminder raises: the first row of either request
RaisingRows == SUBSET {1, 1 + Len(ReminderType)}

NextScan ==
    \/ \E request \in ScanRequests :
          ScheduleReminders(request[1], request[2], 1, [h |-> 1, m |-> 0])
    \/ \E sms_outcome \in SmsOutcomes, smtp_outcome \in SmtpOutcomes,
          raising \in RaisingRows :
          CheckAndSendReminders(sms_outcome, smtp_outcome, raising)
    \/ Advance

SpecScan == InitScheduler /\ [][NextScan]_vars

\* the patient or the appointment of row k is not in the stores
Unresolvable(k) ==
    \/ FindById(patients, reminders[k].patient_id) = NoRecord
    \/ FindById(appointments, reminders[k].appointment_id) = NoRecord

\* the scan of this step made a gateway call for row k
DispatchedInStep(k) ==
    \E i \in (Len(gateway) + 1)..Len(gateway') : gateway'[i].reminder = k

\* C37 (as claimed): in a scan, a due reminder whose patient or appointment
\* cannot be found is dispatched on no channel and stays sent = false, and
\* every other due reminder in which no exception is raised is processed,
\* whatever happens in the reminders before it.
C37_UnresolvableSkipped ==
    [][result'.op = "check_and_send_reminders" =>
          \A k \in 1..Len(reminders) :
              DueNow(k) =>
                  /\ Unresolvable(k) =>
                        ~DispatchedInStep(k) /\ ~reminders'[k].sent
                  /\ (~Unresolvable(k) /\ k \notin result'.raising) =>
                        DispatchedInStep(k)]_vars

(***************************************************************************)
(* tools.py : SmartSchedulingTool._run                                     *)
(***************************************************************************)
\* a Python value handed over as appointment_date carries its type: "date"
\* for a datetime.date, "str" for what strftime('%Y-%m-%d') makes of it
strftime_iso(d) == [type |-> "str", day |-> d]

\* db.get_available_slots(doctor_id, value, duration) as a call: when the
\* doctor is found, value.strftime("%A") is evaluated, and only a date has
\* that method (AttributeError otherwise)
call_get_available_slots(appts, doctor_id, value, duration) ==
    IF FindDoctor(doctor_id) = NoRecord THEN <<>>
    ELSE IF value.type # "date" THEN Raise
    ELSE get_available_slots(appts, doctor_id, value.day, duration)

SmartDoctors == <<"D001", "D002", "D003", "D004", "D005">>

\* the entries one doctor adds to suitable_slots; except: continue
doctor_slots(appts, doctor_id, value, duration) ==
    LET slots == call_get_available_slots(appts, doctor_id, value, duration)
    IN  IF slots = Raise THEN <<>>
        ELSE [i \in 1..Len(slots) |->
                 [time |-> slots[i], doctor_id |-> doctor_id]]

\* suitable_slots after the loop over doctors[k..]
RECURSIVE suitable_slots(_, _, _, _)
suitable_slots(appts, k, value, duration) ==
    IF k > Len(SmartDoctors) THEN <<>>
    ELSE doctor_slots(appts, SmartDoctors[k], value, duration)
         \o suitable_slots(appts, k + 1, value, duration)

ShownSlots == 5
NoSlotsMessage == "No available slots"

SmartScheduling(first_name, last_name, phone) ==
    /\ LET found == detect_patient_type(emr, phone, None, first_name,
                                        last_name, {})
           duration == get_smart_duration(found.patient, found.patient_type)
           suitable == suitable_slots(appointments, 1,
                                      strftime_iso(Today + 1), duration)
       IN  result' = [op |-> "smart_scheduling",
                      duration |-> duration,
                      message |-> IF suitable = <<>> THEN NoSlotsMessage
                                  ELSE "SMART SCHEDULING RESULT",
                      slots |-> SubSeq(suitable, 1,
                                       IF Len(suitable) < ShownSlots
                                       THEN Len(suitable) ELSE ShownSlots)]
    /\ UNCHANGED <<doctors, appointments, reminders, patients, emr, now>>
    /\ UNCHANGED comms

InitSmart ==
    /\ doctors \in DoctorSetups
    /\ appointments = <<>>
    /\ reminders = <<>>
    /\ patients = <<>>
    /\ emr \in EmrSetups
    /\ now = 0
    /\ result = [op |-> "init"]
    /\ CommsIdle

NextSmart ==
    \/ \E d \in DoctorIds, dt \in DateInputs, h \in {9, 10},
          duration \in OccupancyDurations :
          BookAppointment("P0001", d, dt, [h |-> h, m |-> 0], duration)
    \/ \E first_name \in {"Ann", "Bob"}, phone \in Phones \cup {None} :
          SmartScheduling(first_name, "Lee", phone)
    \/ Tick

SpecSmart == InitSmart /\ [][NextSmart]_vars

\* the Availability Calculator has a start time for one of the doctors
\* D001..D005 on the next day for this duration
CalculatorOffers(duration) ==
    \E k \in 1..Len(SmartDoctors) :
        get_available_slots(appointments, SmartDoctors[k], Today + 1,
                            duration) # <<>>

\* C38 (as claimed): whenever get_available_slots returns a start time for
\* one of the doctors D001..D005 on the next day for the policy duration,
\* SmartSchedulingTool._run lists slots, each of them a start time of the
\* calculator for its doctor, and does not report that none is available.
C38_SmartSchedulingOffersSlots ==
    (result.op = "smart_scheduling" /\ CalculatorOffers(result.duration)) =>
        /\ result.message # NoSlotsMessage
        /\ result.slots # <<>>
        /\ \A i \in 1..Len(result.slots) :
              result.slots[i].time \in
                  Range(get_available_slots(appointments,
                                            result.slots[i].doctor_id,
                                            Today + 1, result.duration))

====
